---- MODULE Spec2Model ----
(***************************************************************************)
(* State-machine model of the ectmap star map: the map view (StarMap), the *)
(* local view (SystemDetail) and the map data endpoint.                    *)
(*                                                                         *)
(* Numbers that the program keeps as JavaScript doubles are modelled as    *)
(* exact rationals <<n, d>> in lowest terms with d > 0.                    *)
(***************************************************************************)
EXTENDS Integers, Sequences, FiniteSets, TLC

VARIABLES
    view,               \* "map" (StarMap) or "system" (SystemDetail)
    dimensions,         \* useState dimensions {width, height}
    mapData,            \* StarMap: useState mapData (null until loaded)
    loading,            \* useState loading
    cameraRef,          \* useRef camera {x, y, zoom}
    camera,             \* useState camera {x, y, zoom}
    cameraInitialized,  \* useState cameraInitialized
    isDragging,         \* useState isDragging
    dragStart,          \* useState dragStart
    mouseDownPos,       \* useState mouseDownPos
    lastPointer,        \* clientX / clientY of the latest mouse down or drag move (history)
    renderRequested,    \* useRef renderRequested (drag frame pending)
    wheel,              \* closure of the current wheel effect
    staleWheel,         \* frames requested by wheel effects since replaced
    hovered,            \* useState hoveredSystem / hoveredObject: whose tooltip
    nav,                \* router.push calls made by the last handler
    wheelFrames,        \* number of wheel frames applied
    drags,              \* number of mouse-downs handled
    resizes,            \* number of resize events handled
    systemData,         \* SystemDetail: useState systemData (null until loaded)
    adjustedPositions,  \* SystemDetail: useRef adjustedPositions
    selected,           \* SystemDetail: useState selectedObject (identity)
    colorMode,          \* StarMap: useState colorMode
    sovereigntyData,    \* StarMap: useState sovereigntyData (null until loaded)
    allianceData,       \* StarMap: useState allianceData (null until loaded)
    stargates,          \* map data endpoint: the stargate records as read
    cachedMapData,      \* map data endpoint: the cached response (null until built)
    cachedData,         \* overlay endpoints: the module variable cachedData of each
    now,                \* overlay endpoints: Date.now(), in ms since the server started
    fetching,           \* overlay endpoints: GET calls waiting for the upstream
    returned,           \* overlay endpoints: the response returned last, if any
    error,              \* useState error (null, or the message shown)
    systemId,           \* SystemDetail: the systemId prop (0 in the map view)
    inFlight,           \* SystemDetail: requests of loadSystemData not yet answered
    imageCache,         \* SystemDetail: useRef imageCache, typeID -> state of its image
    imageLoadRafId,     \* SystemDetail: image frames requested and not yet run
    pendingImageUpdates,\* SystemDetail: useRef pendingImageUpdates
    imageLoadTrigger,   \* SystemDetail: useState imageLoadTrigger
    searchQuery,        \* StarMap: useState searchQuery
    searchDebounce,     \* StarMap: the timeout of searchDebounceRef, if it is pending
    filteredResults,    \* StarMap: useState filteredResults
    showAutocomplete    \* StarMap: useState showAutocomplete

\* the overlay state of the map view and the state of the endpoint
overlayVars == <<colorMode, sovereigntyData, allianceData>>
cacheVars == <<cachedData, now, fetching, returned>>
apiVars == <<stargates, cachedMapData, cacheVars>>
\* the load state of a view
loadVars == <<error, systemId, inFlight>>
\* the image loader of the local view and its frame bookkeeping
imageRafVars == <<imageLoadRafId, pendingImageUpdates, imageLoadTrigger>>
imageVars == <<imageCache, imageRafVars>>
\* the search box of the map view
searchVars == <<searchQuery, searchDebounce, filteredResults, showAutocomplete>>

vars == <<view, dimensions, mapData, loading, cameraRef, camera,
          cameraInitialized, isDragging, dragStart, mouseDownPos, lastPointer,
          renderRequested, wheel, staleWheel, hovered, nav,
          wheelFrames, drags, resizes, systemData, adjustedPositions,
          selected, overlayVars, apiVars, loadVars, imageVars, searchVars>>

(***************************************************************************)
(* Bounds of the model.                                                    *)
(***************************************************************************)
MaxWheelFrames == 1
MaxZoomOut == 11
MaxZoomIn == 40
MaxBusyPending == 1
MaxDrags == 1
MaxResizes == 1
MaxGates == 3
MaxHalfHours == 2
MaxFetching == 2

\* an absent value; a present record r is held as <<r>>
Null == << >>
Some(r) == << r >>

(***************************************************************************)
(* Exact rational arithmetic for the doubles of the program.               *)
(***************************************************************************)
Abs(i) == IF i < 0 THEN -i ELSE i

RECURSIVE GCD(_, _)
GCD(a, b) == IF b = 0 THEN a ELSE GCD(b, a % b)

Norm(n, d) ==
    LET s == IF d < 0 THEN -1 ELSE 1
        g == GCD(Abs(n), Abs(d))
    IN  <<(s * n) \div g, (s * d) \div g>>

R(i) == <<i, 1>>
RNeg(a) == <<-a[1], a[2]>>

\* sums and products are reduced before they are multiplied out, so that the
\* intermediate values stay small
RAdd(a, b) ==
    LET g == GCD(a[2], b[2])
    IN  Norm(a[1] * (b[2] \div g) + b[1] * (a[2] \div g), (a[2] \div g) * b[2])
RSub(a, b) == RAdd(a, RNeg(b))
RMul(a, b) ==
    LET g1 == GCD(Abs(a[1]), b[2])
        g2 == GCD(Abs(b[1]), a[2])
    IN  IF a[1] = 0 \/ b[1] = 0 THEN <<0, 1>>
        ELSE <<(a[1] \div g1) * (b[1] \div g2), (a[2] \div g2) * (b[2] \div g1)>>
RInv(a) == IF a[1] < 0 THEN <<-a[2], -a[1]>> ELSE <<a[2], a[1]>>
RDiv(a, b) == RMul(a, RInv(b))
RAbs(a) == <<Abs(a[1]), a[2]>>

\* n1/d1 < n2/d2 for n1, n2 >= 0 and d1, d2 > 0, by continued fractions
RECURSIVE FracLess(_, _, _, _)
FracLess(n1, d1, n2, d2) ==
    LET q1 == n1 \div d1
        q2 == n2 \div d2
        r1 == n1 % d1
        r2 == n2 % d2
    IN  IF q1 # q2 THEN q1 < q2
        ELSE IF r2 = 0 THEN FALSE
        ELSE IF r1 = 0 THEN TRUE
        ELSE FracLess(d2, r2, d1, r1)

RLt(a, b) ==
    IF a[1] < 0
    THEN (b[1] >= 0 \/ FracLess(-b[1], b[2], -a[1], a[2]))
    ELSE (b[1] > 0 /\ FracLess(a[1], a[2], b[1], b[2]))
RLe(a, b) == ~RLt(b, a)
RMax(a, b) == IF RLt(a, b) THEN b ELSE a
RMin(a, b) == IF RLt(b, a) THEN b ELSE a

\* a * b < c * d for integers, without forming the products
Sign(i) == IF i < 0 THEN -1 ELSE IF i > 0 THEN 1 ELSE 0
ProdLess(a, b, c, d) ==
    LET s1 == Sign(a) * Sign(b)
        s2 == Sign(c) * Sign(d)
    IN  IF s1 # s2 THEN s1 < s2
        ELSE IF s1 = 0 THEN FALSE
        ELSE IF s1 > 0 THEN FracLess(Abs(a), Abs(c), Abs(d), Abs(b))
        ELSE FracLess(Abs(c), Abs(a), Abs(b), Abs(d))

LCM(a, b) == (a \div GCD(a, b)) * b

\* Math.sqrt(dx * dx + dy * dy) < r for rationals dx, dy and r
HypotLess(dx, dy, r) ==
    /\ RLt(RAbs(dx), r)
    /\ RLt(RAbs(dy), r)
    /\ LET D == LCM(LCM(dx[2], dy[2]), r[2])
           A == Abs(dx[1]) * (D \div dx[2])
           B == Abs(dy[1]) * (D \div dy[2])
           C == r[1] * (D \div r[2])
       IN  \* B * B < (C - A) * (C + A)
           ProdLess(B, B, C - A, C + A)

\* Math.sqrt(dx1 * dx1 + dy1 * dy1) < Math.sqrt(dx2 * dx2 + dy2 * dy2)
HypotCloser(dx1, dy1, dx2, dy2) ==
    LET D == LCM(LCM(dx1[2], dy1[2]), LCM(dx2[2], dy2[2]))
        A1 == Abs(dx1[1]) * (D \div dx1[2])
        B1 == Abs(dy1[1]) * (D \div dy1[2])
        A2 == Abs(dx2[1]) * (D \div dx2[2])
        B2 == Abs(dy2[1]) * (D \div dy2[2])
    IN  \* A1^2 - A2^2 < B2^2 - B1^2
        ProdLess(A1 - A2, A1 + A2, B2 - B1, B2 + B1)

(***************************************************************************)
(* Data sets the views are loaded with.  A system carries position2D       *)
(* (possibly missing) and the 3D position; only x and y of it are read.    *)
(* securityStatus is held in hundredths.                                   *)
(***************************************************************************)
Sys(k, nm, reg, p2, p3) ==
    [_key |-> k, name |-> nm, regionID |-> reg, position2D |-> p2, position |-> p3,
     securityStatus |-> 15 * k - 40]

P2(x, y) == << [x |-> x, y |-> y] >>

\* three entities at (0,0), (1,0), (1,1) of regions 10, 10, 20
ExampleSystems ==
    << Sys(1, "Aa", 10, P2(0, 0), P2(0, 0)),
       Sys(2, "Ab", 10, P2(1, 0), P2(1, 0)),
       Sys(3, "Ba", 20, P2(1, 1), P2(1, 1)) >>

\* an entity at the middle of the bounding box with a close neighbour
DenseSystems ==
    << Sys(1, "Aa", 10, P2(0, 0), P2(0, 0)),
       Sys(2, "Ab", 10, P2(253, 250), P2(253, 250)),
       Sys(3, "Ba", 20, P2(250, 250), P2(250, 250)),
       Sys(4, "Bb", 20, P2(500, 500), P2(500, 500)) >>

\* a system without position2D, and one whose position2D.x is 0
MixedSystems ==
    << Sys(1, "Aa", 10, Null, P2(10, 20)),
       Sys(2, "Ab", 10, P2(0, 40), P2(30, 7)),
       Sys(3, "Ba", 20, P2(60, 60), P2(1, 1)) >>

Regions == << [_key |-> 10, name |-> "A"], [_key |-> 20, name |-> "B"] >>

Sizes == { [width |-> 800, height |-> 600], [width |-> 1000, height |-> 600] }

SeqToSet(s) == { s[i] : i \in 1..Len(s) }

SetMin(S) == CHOOSE m \in S : \A o \in S : m <= o
SetMax(S) == CHOOSE m \in S : \A o \in S : o <= m

(***************************************************************************)
(* Coordinate projector of the map view.                                   *)
(***************************************************************************)
\* system.position2D?.x || system.position.x
SystemX(system) ==
    IF system.position2D # Null /\ system.position2D[1].x # 0
    THEN system.position2D[1].x ELSE system.position[1].x

\* system.position2D?.y || system.position.y
SystemY(system) ==
    IF system.position2D # Null /\ system.position2D[1].y # 0
    THEN system.position2D[1].y ELSE system.position[1].y

bounds(md) ==
    IF Len(md.systems) = 0
    THEN [minX |-> 0, minY |-> 0, maxX |-> 0, maxY |-> 0]
    ELSE [minX |-> SetMin({ SystemX(s) : s \in SeqToSet(md.systems) }),
          minY |-> SetMin({ SystemY(s) : s \in SeqToSet(md.systems) }),
          maxX |-> SetMax({ SystemX(s) : s \in SeqToSet(md.systems) }),
          maxY |-> SetMax({ SystemY(s) : s \in SeqToSet(md.systems) })]

\* a fallback extent of 2 instead of 1
OrTwo(a) == IF a = 0 THEN 2 ELSE a

\* a || 1
OrOne(a) == IF a = 0 THEN 1 ELSE a

MapPadding == 50

coordinateData(md, dims) ==
    LET b == bounds(md)
        scaleX == Norm(dims.width - MapPadding * 2, OrOne(b.maxX - b.minX))
        scaleY == Norm(dims.height - MapPadding * 2, OrOne(b.maxY - b.minY))
    IN  [minX |-> b.minX, minY |-> b.minY, maxX |-> b.maxX, maxY |-> b.maxY,
         scale |-> RMin(scaleX, scaleY), padding |-> MapPadding]

toCanvasX(cd, x) == RAdd(RMul(R(x - cd.minX), cd.scale), R(cd.padding))

toCanvasY(cd, dims, y) ==
    RSub(R(dims.height), RAdd(RMul(R(y - cd.minY), cd.scale), R(cd.padding)))

\* the pre-camera position at which a system is drawn and hit-tested
SystemCanvas(md, dims, system) ==
    LET cd == coordinateData(md, dims)
    IN  [x |-> toCanvasX(cd, SystemX(system)), y |-> toCanvasY(cd, dims, SystemY(system))]

Half(i) == Norm(i, 2)

Cam(x, y, zoom) == [x |-> x, y |-> y, zoom |-> zoom]

\* an initial camera whose offset is not multiplied by the zoom
MapInitialCameraUnscaled(md, dims) ==
    LET cd == coordinateData(md, dims)
        mapCenterX == RDiv(RAdd(R(cd.padding),
                                RAdd(RMul(R(cd.maxX - cd.minX), cd.scale), R(cd.padding))), R(2))
        mapCenterY == RDiv(RAdd(RSub(R(dims.height),
                                     RAdd(RMul(R(cd.maxY - cd.minY), cd.scale), R(cd.padding))),
                                R(dims.height - cd.padding)), R(2))
    IN  Cam(RNeg(RSub(mapCenterX, Half(dims.width))),
            RNeg(RSub(mapCenterY, Half(dims.height))), R(2))

\* the camera computed by the initialization effect of the map view
MapInitialCamera(md, dims) ==
    LET cd == coordinateData(md, dims)
        renderedMinX == R(cd.padding)
        renderedMaxX == RAdd(RMul(R(cd.maxX - cd.minX), cd.scale), R(cd.padding))
        renderedMinY == RSub(R(dims.height),
                             RAdd(RMul(R(cd.maxY - cd.minY), cd.scale), R(cd.padding)))
        renderedMaxY == R(dims.height - cd.padding)
        mapCenterX == RDiv(RAdd(renderedMinX, renderedMaxX), R(2))
        mapCenterY == RDiv(RAdd(renderedMinY, renderedMaxY), R(2))
        zoom == R(2)
    IN  Cam(RMul(RNeg(RSub(mapCenterX, Half(dims.width))), zoom),
            RMul(RNeg(RSub(mapCenterY, Half(dims.height))), zoom),
            zoom)

(***************************************************************************)
(* Camera transforms.                                                      *)
(***************************************************************************)
\* ctx.translate(w/2 + camera.x, h/2 + camera.y); ctx.scale(zoom, zoom);
\* ctx.translate(-w/2, -h/2): where a pre-camera point is drawn
ForwardTransform(cam, dims, p) ==
    [x |-> RAdd(RAdd(RMul(RSub(p.x, Half(dims.width)), cam.zoom), Half(dims.width)), cam.x),
     y |-> RAdd(RAdd(RMul(RSub(p.y, Half(dims.height)), cam.zoom), Half(dims.height)), cam.y)]

\* the inverse without the surface centre added back
InverseTransformUncentred(cam, dims, m) ==
    [x |-> RDiv(RSub(RSub(m.x, Half(dims.width)), cam.x), cam.zoom),
     y |-> RDiv(RSub(RSub(m.y, Half(dims.height)), cam.y), cam.zoom)]

\* worldX = (mouseX - w/2 - cam.x) / cam.zoom + w/2, and the same for y
InverseTransform(cam, dims, m) ==
    [x |-> RAdd(RDiv(RSub(RSub(m.x, Half(dims.width)), cam.x), cam.zoom), Half(dims.width)),
     y |-> RAdd(RDiv(RSub(RSub(m.y, Half(dims.height)), cam.y), cam.zoom), Half(dims.height))]

RPoint(p) == [x |-> R(p.x), y |-> R(p.y)]

\* distance between a and b < r
Within(a, b, r) == HypotLess(RSub(a.x, b.x), RSub(a.y, b.y), r)

\* distance between w and a < distance between w and b
Closer(w, a, b) ==
    HypotCloser(RSub(w.x, a.x), RSub(w.y, a.y), RSub(w.x, b.x), RSub(w.y, b.y))

\* the new zoom without the lower limit
ClampZoomUnfloored(zoom, pendingTenths) ==
    RMin(R(10), RMul(zoom, Norm(10 + pendingTenths, 10)))

\* Math.max(0.1, Math.min(10, zoom * (1 + pendingZoomDelta))), delta in tenths
ClampZoom(zoom, pendingTenths) ==
    RMax(<<1, 10>>, RMin(R(10), RMul(zoom, Norm(10 + pendingTenths, 10))))

\* the callback keeping the offset while the zoom changes
WheelApplyUnanchored(cam, dims, mouse, pendingTenths) ==
    Cam(cam.x, cam.y, ClampZoom(cam.zoom, pendingTenths))

\* the body of the animation-frame callback of handleWheelEvent
WheelApply(cam, dims, mouse, pendingTenths) ==
    LET newZoom == ClampZoom(cam.zoom, pendingTenths)
        worldX == RDiv(RSub(RSub(R(mouse.x), Half(dims.width)), cam.x), cam.zoom)
        worldY == RDiv(RSub(RSub(R(mouse.y), Half(dims.height)), cam.y), cam.zoom)
        newX == RSub(RSub(R(mouse.x), Half(dims.width)), RMul(worldX, newZoom))
        newY == RSub(RSub(R(mouse.y), Half(dims.height)), RMul(worldY, newZoom))
    IN  Cam(newX, newY, newZoom)

(***************************************************************************)
(* Spatial queries of the map view.                                        *)
(***************************************************************************)
\* a hover radius that ignores the zoom
MapHoverRadiusFixed(zoom) == R(10)

\* hoverRadius = 10 / cam.zoom
MapHoverRadius(zoom) == RDiv(R(10), zoom)

\* clickRadius = 10 / cam.zoom
MapClickRadius(zoom) == RDiv(R(10), zoom)

\* a scan in which a system replaces the best so far when it is not farther
RECURSIVE MapHoverScanLast(_, _, _, _, _, _)
MapHoverScanLast(md, dims, world, radius, i, best) ==
    IF i > Len(md.systems) THEN best
    ELSE LET p == SystemCanvas(md, dims, md.systems[i])
             nearer == IF best = Null THEN Within(world, p, radius)
                       ELSE ~Closer(world, SystemCanvas(md, dims, best[1]), p)
         IN  MapHoverScanLast(md, dims, world, radius, i + 1,
                              IF nearer THEN Some(md.systems[i]) ELSE best)

MapHoverQueryLast(md, dims, cam, m) ==
    MapHoverScanLast(md, dims, InverseTransform(cam, dims, RPoint(m)),
                     MapHoverRadius(cam.zoom), 1, Null)

\* the scan of handleMouseMove: nearestDistance starts at hoverRadius and a
\* system replaces the best so far when it is strictly nearer
RECURSIVE MapHoverScan(_, _, _, _, _, _)
MapHoverScan(md, dims, world, radius, i, best) ==
    IF i > Len(md.systems) THEN best
    ELSE LET p == SystemCanvas(md, dims, md.systems[i])
             nearer == IF best = Null THEN Within(world, p, radius)
                       ELSE Closer(world, p, SystemCanvas(md, dims, best[1]))
         IN  MapHoverScan(md, dims, world, radius, i + 1,
                          IF nearer THEN Some(md.systems[i]) ELSE best)

MapHoverQuery(md, dims, cam, m) ==
    MapHoverScan(md, dims, InverseTransform(cam, dims, RPoint(m)),
                 MapHoverRadius(cam.zoom), 1, Null)

\* the scan of handleMouseUp: router.push for the first system inside the
\* radius, then break
RECURSIVE MapClickScan(_, _, _, _, _)
MapClickScan(md, dims, world, radius, i) ==
    IF i > Len(md.systems) THEN << >>
    ELSE IF Within(world, SystemCanvas(md, dims, md.systems[i]), radius)
         THEN << md.systems[i]._key >>
         ELSE MapClickScan(md, dims, world, radius, i + 1)

MapClickQuery(md, dims, cam, m) ==
    MapClickScan(md, dims, InverseTransform(cam, dims, RPoint(m)),
                 MapClickRadius(cam.zoom), 1)

\* distance < 5 between the mouse-up and the last mouse-down
IsClick(down, up) ==
    (up.x - down.x) * (up.x - down.x) + (up.y - down.y) * (up.y - down.y) < 25

(***************************************************************************)
(* Search-result selection of the map view.                                *)
(***************************************************************************)
RECURSIVE SumSeq(_, _)
SumSeq(f, i) == IF i = 0 THEN 0 ELSE f[i] + SumSeq(f, i - 1)

\* the camera handleSelectResult passes to setCamera, Null when it passes none
SelectCamera(md, dims, result) ==
    LET centre(x, y, zoom) ==
            LET cd == coordinateData(md, dims)
                canvasX == RAdd(RMul(RSub(x, R(cd.minX)), cd.scale), R(cd.padding))
                canvasY == RSub(R(dims.height),
                                RAdd(RMul(RSub(y, R(cd.minY)), cd.scale), R(cd.padding)))
            IN  Some(Cam(RMul(RNeg(RSub(canvasX, Half(dims.width))), zoom),
                         RMul(RNeg(RSub(canvasY, Half(dims.height))), zoom),
                         zoom))
    IN  IF result.type = "system"
        THEN LET found == SelectSeq(md.systems, LAMBDA q : q._key = result.id)
             IN  IF Len(found) = 0 THEN Null
                 ELSE centre(R(SystemX(found[1])), R(SystemY(found[1])), R(8))
        ELSE LET regionSystems == SelectSeq(md.systems, LAMBDA q : q.regionID = result.id)
                 n == Len(regionSystems)
                 sumX == SumSeq([i \in 1..n |-> SystemX(regionSystems[i])], n)
                 sumY == SumSeq([i \in 1..n |-> SystemY(regionSystems[i])], n)
             IN  IF n = 0 THEN Null
                 ELSE centre(Norm(sumX, n), Norm(sumY, n), R(4))

\* the entries the autocomplete list can hold for the loaded data
SearchResults(md) ==
    { [type |-> "system", id |-> q._key] : q \in SeqToSet(md.systems) } \cup
    { [type |-> "region", id |-> g._key] : g \in SeqToSet(md.regions) }

(***************************************************************************)
(* Local view: projector of the markers.  Marker positions are kept on a   *)
(* grid of 1/Unit pixel, to which every computed double is rounded.        *)
(***************************************************************************)
Unit == 256

LocalPadding == 100

Body(k, pos) == [_key |-> k, position |-> pos]

\* a planet: a body with the typeID of its icon (0: none)
Planet(k, pos, typeID) == [_key |-> k, position |-> pos, typeID |-> typeID]

PXZ(x, z) == << [x |-> x, z |-> z] >>

\* star.position || { x: 0, z: 0 }
StarPosition(star) == IF star.position = Null THEN PXZ(0, 0)[1] ELSE star.position[1]

objectBounds(sd) ==
    LET positioned(list) ==
            { b.position[1] : b \in { c \in SeqToSet(list) : c.position # Null } }
        pts == (IF sd.star = Null THEN {} ELSE { StarPosition(sd.star[1]) })
               \cup positioned(sd.planets) \cup positioned(sd.moons)
               \cup positioned(sd.stargates) \cup positioned(sd.stations)
    IN  IF pts = {}
        THEN [minA |-> 0, minB |-> 0, maxA |-> 0, maxB |-> 0]
        ELSE [minA |-> SetMin({ q.x : q \in pts }), minB |-> SetMin({ q.z : q \in pts }),
              maxA |-> SetMax({ q.x : q \in pts }), maxB |-> SetMax({ q.z : q \in pts })]

localCoordinateData(sd, dims) ==
    LET b == objectBounds(sd)
        scaleA == Norm(dims.width - LocalPadding * 2, OrOne(b.maxA - b.minA))
        scaleB == Norm(dims.height - LocalPadding * 2, OrOne(b.maxB - b.minB))
    IN  [minA |-> b.minA, minB |-> b.minB, maxA |-> b.maxA, maxB |-> b.maxB,
         scale |-> RMin(scaleA, scaleB), padding |-> LocalPadding]

\* toCanvasCoords of the local render effect, as exact rationals
toCanvasCoords(cd, dims, pos) ==
    [x |-> RAdd(RMul(R(pos.x - cd.minA), cd.scale), R(cd.padding)),
     y |-> RSub(R(dims.height), RAdd(RMul(R(pos.z - cd.minB), cd.scale), R(cd.padding)))]

\* the camera computed by the initialization effect of the local view
LocalInitialCamera(sd, dims) ==
    LET cd == localCoordinateData(sd, dims)
        starCanvas == toCanvasCoords(cd, dims, [x |-> 0, z |-> 0])
        zoom == R(1)
    IN  Cam(RMul(RNeg(RSub(starCanvas.x, Half(dims.width))), zoom),
            RMul(RNeg(RSub(starCanvas.y, Half(dims.height))), zoom),
            zoom)

\* rounding of a rational to the marker grid
RoundDiv(a, b) == (2 * a + b) \div (2 * b)
ToGrid(q) == RoundDiv(q[1] * Unit, q[2])
FromGrid(g) == Norm(g, Unit)

\* starRadius: 12, or 8 + 4 solar radii kept within [8, 20]; star.radius is
\* held in quarter solar radii
StarRadius(star) ==
    IF star.radius = 0 THEN 12
    ELSE LET r == 8 + star.radius
         IN  IF r > 20 THEN 20 ELSE IF r < 8 THEN 8 ELSE r

Marker(cd, dims, type, radius, b, pos) ==
    LET c == toCanvasCoords(cd, dims, pos)
    IN  [x |-> ToGrid(c.x), y |-> ToGrid(c.y), type |-> type, radius |-> radius,
         dataRef |-> <<type, b._key>>]

\* objectsToRender: the star, then the planets, stargates and stations that
\* have a position
CollectMarkers(sd, dims) ==
    LET cd == localCoordinateData(sd, dims)
        of(list, type, radius) ==
            LET withPos == SelectSeq(list, LAMBDA b : b.position # Null)
            IN  [i \in 1..Len(withPos) |->
                    Marker(cd, dims, type, radius, withPos[i], withPos[i].position[1])]
    IN  (IF sd.star = Null THEN << >>
         ELSE << Marker(cd, dims, "star", StarRadius(sd.star[1]), sd.star[1],
                        StarPosition(sd.star[1])) >>)
        \o of(sd.planets, "planet", 6)
        \o of(sd.stargates, "stargate", 5)
        \o of(sd.stations, "station", 4)

(***************************************************************************)
(* Local view: collision-avoidance relaxation of the render effect.        *)
(***************************************************************************)
minSeparation == 15
maxIterations == 5
cellSize == minSeparation * 2

RECURSIVE SqrtSearch(_, _, _)
SqrtSearch(n, lo, hi) ==
    IF lo >= hi THEN lo
    ELSE LET mid == (lo + hi + 1) \div 2
         IN  IF mid * mid <= n THEN SqrtSearch(n, mid, hi) ELSE SqrtSearch(n, lo, mid - 1)

\* Math.sqrt of a squared grid length below minSeparation, in grid units
GridSqrt(n) == SqrtSearch(n, 0, minSeparation * Unit)

\* Math.floor(x / cellSize), Math.floor(y / cellSize)
Cell(o) == << o.x \div (cellSize * Unit), o.y \div (cellSize * Unit) >>

GridDistSq(a, b) == (b.x - a.x) * (b.x - a.x) + (b.y - a.y) * (b.y - a.y)

\* distance < minSeparation && distance > 0.  Markers of neighbouring cells
\* are less than 3 cells apart on each axis; farther ones are not colliding.
Colliding(a, b) ==
    /\ Abs(b.x - a.x) < minSeparation * Unit
    /\ Abs(b.y - a.y) < minSeparation * Unit
    /\ GridDistSq(a, b) < minSeparation * Unit * minSeparation * Unit
    /\ GridDistSq(a, b) > 0

\* both markers moved apart by half the penetration depth along their vector
Push(objs, i, j) ==
    LET dx == objs[j].x - objs[i].x
        dy == objs[j].y - objs[i].y
        distance == GridSqrt(dx * dx + dy * dy)
        \* cos(angle) * pushStrength and sin(angle) * pushStrength
        mx == RoundDiv(dx * (minSeparation * Unit - distance), 2 * distance)
        my == RoundDiv(dy * (minSeparation * Unit - distance), 2 * distance)
    IN  [objs EXCEPT ![i].x = @ - mx, ![i].y = @ - my,
                     ![j].x = @ + mx, ![j].y = @ + my]

\* the neighbours obj1 inspects: for dx, dy in -1..1 the entries of the grid
\* cell (cellX + dx, cellY + dy), each cell in insertion (index) order
Neighbours(cells, cell) ==
    LET inCell(c) == SelectSeq([k \in 1..Len(cells) |-> k], LAMBDA k : cells[k] = c)
        col(dx) == inCell(<<cell[1] + dx, cell[2] - 1>>) \o inCell(<<cell[1] + dx, cell[2]>>)
                   \o inCell(<<cell[1] + dx, cell[2] + 1>>)
    IN  col(-1) \o col(0) \o col(1)

\* relaxation state: marker list, checked pairs, hadCollision
RECURSIVE PairLoop(_, _, _, _)
PairLoop(st, i, cand, k) ==
    IF k > Len(cand) THEN st
    ELSE LET j == cand[k]
             pairKey == IF i < j THEN <<i, j>> ELSE <<j, i>>
         IN  IF i = j \/ pairKey \in st.checkedPairs
             THEN PairLoop(st, i, cand, k + 1)
             ELSE LET st1 == [st EXCEPT !.checkedPairs = @ \cup {pairKey}]
                  IN  IF Colliding(st.objs[i], st.objs[j])
                      THEN PairLoop([st1 EXCEPT !.objs = Push(st.objs, i, j),
                                                !.hadCollision = TRUE], i, cand, k + 1)
                      ELSE PairLoop(st1, i, cand, k + 1)

RECURSIVE ObjectLoop(_, _, _)
ObjectLoop(st, cells, i) ==
    IF i > Len(st.objs) THEN st
    ELSE ObjectLoop(PairLoop(st, i, Neighbours(cells, Cell(st.objs[i])), 1), cells, i + 1)

\* one iteration: the grid is built from the positions at its start
Iteration(objs) ==
    ObjectLoop([objs |-> objs, checkedPairs |-> {}, hadCollision |-> FALSE],
               [k \in 1..Len(objs) |-> Cell(objs[k])], 1)

\* for (iteration = 0; iteration < maxIterations; iteration++) { ...
\*   if (!hadCollision) break; }
RECURSIVE RelaxFrom(_, _)
RelaxFrom(objs, iteration) ==
    IF iteration >= maxIterations THEN [objs |-> objs, iterations |-> iteration]
    ELSE LET st == Iteration(objs)
         IN  IF ~st.hadCollision THEN [objs |-> st.objs, iterations |-> iteration + 1]
             ELSE RelaxFrom(st.objs, iteration + 1)

\* a loop without the break: maxIterations iterations whatever they push
RECURSIVE RelaxAllFrom(_, _)
RelaxAllFrom(objs, iteration) ==
    IF iteration >= maxIterations THEN [objs |-> objs, iterations |-> iteration]
    ELSE RelaxAllFrom(Iteration(objs).objs, iteration + 1)

RelaxUnstopped(objs) == RelaxAllFrom(objs, 0)

Relax(objs) == RelaxFrom(objs, 0)

\* adjustedPositions after clear() and one set() per rendered marker
AdjustedOf(objs) ==
    [ref \in { objs[k].dataRef : k \in 1..Len(objs) } |->
        LET k == CHOOSE q \in 1..Len(objs) :
                    /\ objs[q].dataRef = ref
                    /\ \A r \in 1..Len(objs) : objs[r].dataRef = ref => r <= q
        IN  [x |-> objs[k].x, y |-> objs[k].y, radius |-> objs[k].radius]]

(***************************************************************************)
(* Local view: spatial query.                                              *)
(***************************************************************************)
\* detectionRadius = adjusted.radius / cam.zoom + detectionBuffer
DetectionRadius(radius, zoom, detectionBuffer) ==
    RAdd(RDiv(R(radius), zoom), R(detectionBuffer))

HoverBuffer == 3
ClickBuffer == 5

\* the objects findObjectAtPosition scans, in its order
QueryOrder(sd) ==
    LET refs(list, type) == [i \in 1..Len(list) |-> <<type, list[i]._key>>]
    IN  (IF sd.star = Null THEN << >> ELSE << <<"star", sd.star[1]._key>> >>)
        \o refs(sd.planets, "planet") \o refs(sd.stargates, "stargate")
        \o refs(sd.stations, "station")

GridPoint(a) == [x |-> FromGrid(a.x), y |-> FromGrid(a.y)]

\* distance < detectionRadius && distance < nearestDistance, nearestDistance
\* starting at Infinity
RECURSIVE LocalScan(_, _, _, _, _, _, _)
LocalScan(order, adjusted, world, zoom, buffer, i, best) ==
    IF i > Len(order) THEN best
    ELSE IF order[i] \notin DOMAIN adjusted
         THEN LocalScan(order, adjusted, world, zoom, buffer, i + 1, best)
         ELSE LET a == adjusted[order[i]]
                  hit == /\ Within(world, GridPoint(a),
                                   DetectionRadius(a.radius, zoom, buffer))
                         /\ (best = Null
                             \/ Closer(world, GridPoint(a), GridPoint(adjusted[best])))
              IN  LocalScan(order, adjusted, world, zoom, buffer, i + 1,
                            IF hit THEN order[i] ELSE best)

findObjectAtPosition(sd, adjusted, dims, cam, m, detectionBuffer) ==
    LocalScan(QueryOrder(sd), adjusted, InverseTransform(cam, dims, RPoint(m)),
              cam.zoom, detectionBuffer, 1, Null)

(***************************************************************************)
(* Map view: label anchors of the render effect.                           *)
(***************************************************************************)
\* seven members of alliance 1 and one of alliance 2 on a 700 x 250 box, so that
\* the fit scale is 1 on the 800 x 600 surface and 9/7 on the 1000 x 600 one
ChainSystems ==
    << Sys(1, "Ca", 10, P2(1, 250), P2(1, 250)),
       Sys(2, "Cb", 10, P2(241, 250), P2(241, 250)),
       Sys(3, "Cc", 10, P2(121, 250), P2(121, 250)),
       Sys(4, "Cd", 20, P2(700, 1), P2(700, 1)),
       Sys(5, "Ce", 20, P2(400, 1), P2(400, 1)),
       Sys(6, "Cf", 20, P2(550, 1), P2(550, 1)),
       Sys(7, "Cg", 20, P2(191, 250), P2(191, 250)),
       Sys(8, "Ch", 30, P2(135, 245), P2(135, 245)) >>

LabelLayouts ==
    { [systems |-> ExampleSystems, regions |-> Regions],
      [systems |-> MixedSystems, regions |-> Regions],
      [systems |-> ChainSystems, regions |-> Regions] }

\* overlay responses: system key -> faction id (0: none)
SovereigntyResponses ==
    { [k \in 1..8 |-> 0],
      [k \in 1..8 |-> IF k <= 2 THEN 500001 ELSE IF k = 3 THEN 500009 ELSE 0] }

\* overlay responses: system key -> alliance info (Null: none)
Alliance(id, nm) == Some([alliance_id |-> id, alliance_name |-> nm])
AllianceResponses ==
    { [k \in 1..8 |-> Null],
      [k \in 1..8 |-> IF k <= 6 THEN Alliance(1, "One")
                      ELSE IF k = 7 THEN Alliance(2, "Two") ELSE Null],
      [k \in 1..8 |-> IF k = 8 THEN Null ELSE Alliance(1, "One")] }

\* the position the render effect computes for a system before it groups it:
\* toCanvasX / toCanvasY of its coordinates; the camera transform is applied
\* by the canvas context when drawing
AnchorPointOnScreen(md, dims, cam, system) ==
    ForwardTransform(cam, dims, SystemCanvas(md, dims, system))

AnchorPoint(md, dims, cam, system) == SystemCanvas(md, dims, system)

\* index of the entry of centerMap with this id, 0 when it has none
IndexOf(centerMap, id) ==
    LET found == { i \in 1..Len(centerMap) : centerMap[i].id = id }
    IN  IF found = {} THEN 0 ELSE CHOOSE i \in found : TRUE

\* the update of an entry without its count
AccumulateUncounted(centerMap, id, p, name) ==
    LET i == IndexOf(centerMap, id)
    IN  IF i = 0
        THEN Append(centerMap, [id |-> id, x |-> p.x, y |-> p.y, count |-> 1,
                                name |-> name, allianceId |-> 0])
        ELSE [centerMap EXCEPT ![i].x = RAdd(@, p.x), ![i].y = RAdd(@, p.y)]

\* centerMap.set(id, {x, y, count: 1, name}), or x += x, y += y, count += 1
Accumulate(centerMap, id, p, name) ==
    LET i == IndexOf(centerMap, id)
    IN  IF i = 0
        THEN Append(centerMap, [id |-> id, x |-> p.x, y |-> p.y, count |-> 1,
                                name |-> name, allianceId |-> 0])
        ELSE [centerMap EXCEPT ![i].x = RAdd(@, p.x), ![i].y = RAdd(@, p.y),
                               ![i].count = @ + 1]

\* region?.name.en || 'Unknown'
RegionName(md, regionID) ==
    LET found == SelectSeq(md.regions, LAMBDA r : r._key = regionID)
    IN  IF found = << >> THEN "Unknown" ELSE found[1].name

\* the branch taken when no overlay mode with loaded data is active
RECURSIVE RegionCenters(_, _, _, _, _)
RegionCenters(md, dims, cam, i, centerMap) ==
    IF i > Len(md.systems) THEN centerMap
    ELSE LET system == md.systems[i]
         IN  RegionCenters(md, dims, cam, i + 1,
                 Accumulate(centerMap, system.regionID,
                            AnchorPoint(md, dims, cam, system),
                            RegionName(md, system.regionID)))

\* factionNames[factionId] || `Faction ${factionId}`
FactionName(factionId) ==
    CASE factionId = 500001 -> "Caldari State"
      [] factionId = 500002 -> "Minmatar Republic"
      [] factionId = 500003 -> "Amarr Empire"
      [] factionId = 500004 -> "Gallente Federation"
      [] OTHER -> "Faction " \o ToString(factionId)

RECURSIVE FactionCenters(_, _, _, _, _, _)
FactionCenters(md, dims, cam, sov, i, centerMap) ==
    IF i > Len(md.systems) THEN centerMap
    ELSE LET system == md.systems[i]
             factionId == IF system._key \in DOMAIN sov THEN sov[system._key] ELSE 0
         IN  FactionCenters(md, dims, cam, sov, i + 1,
                 IF factionId = 0 THEN centerMap
                 ELSE Accumulate(centerMap, factionId,
                                 AnchorPoint(md, dims, cam, system),
                                 FactionName(factionId)))

\* allianceSystems: for each alliance id, in insertion order, its systems
RECURSIVE AllianceSystems(_, _, _, _, _, _)
AllianceSystems(md, dims, cam, ad, i, groups) ==
    IF i > Len(md.systems) THEN groups
    ELSE LET system == md.systems[i]
             info == IF system._key \in DOMAIN ad THEN ad[system._key] ELSE Null
             p == AnchorPoint(md, dims, cam, system)
             entry == [x |-> p.x, y |-> p.y, name |-> info[1].alliance_name]
             at == { g \in 1..Len(groups) : groups[g].allianceId = info[1].alliance_id }
         IN  AllianceSystems(md, dims, cam, ad, i + 1,
                 IF info = Null THEN groups
                 ELSE IF at = {}
                      THEN Append(groups, [allianceId |-> info[1].alliance_id,
                                           systems |-> << entry >>])
                      ELSE LET g == CHOOSE g \in at : TRUE
                           IN  [groups EXCEPT ![g].systems = Append(@, entry)])

proximityThreshold == 150

\* cluster.some(distance to systems[j] < proximityThreshold)
isNearby(systems, cluster, j) ==
    \E k \in 1..Len(cluster) :
        Within(systems[cluster[k]], systems[j], R(proximityThreshold))

\* the inner loop without the restart after an absorption
RECURSIVE ClusterScanOnce(_, _, _, _, _)
ClusterScanOnce(systems, i, j, cluster, visited) ==
    IF j > Len(systems) THEN [cluster |-> cluster, visited |-> visited]
    ELSE IF j \notin visited /\ isNearby(systems, cluster, j)
         THEN ClusterScanOnce(systems, i, j + 1, Append(cluster, j), visited \cup {j})
         ELSE ClusterScanOnce(systems, i, j + 1, cluster, visited)

\* the inner loop over j: an absorbed system sets j = i, so that the scan
\* starts again at i + 1
RECURSIVE ClusterScan(_, _, _, _, _)
ClusterScan(systems, i, j, cluster, visited) ==
    IF j > Len(systems) THEN [cluster |-> cluster, visited |-> visited]
    ELSE IF j \notin visited /\ isNearby(systems, cluster, j)
         THEN ClusterScan(systems, i, i + 1, Append(cluster, j), visited \cup {j})
         ELSE ClusterScan(systems, i, j + 1, cluster, visited)

\* the outer loop over i: the clusters of one alliance, as index sequences
RECURSIVE Clusters(_, _, _, _)
Clusters(systems, i, visited, clusters) ==
    IF i > Len(systems) THEN clusters
    ELSE IF i \in visited THEN Clusters(systems, i + 1, visited, clusters)
    ELSE LET scan == ClusterScan(systems, i, i + 1, << i >>, visited \cup {i})
         IN  Clusters(systems, i + 1, scan.visited, Append(clusters, scan.cluster))

\* cluster.reduce((sum, s) => sum + s.x, 0) and the same for y
RECURSIVE SumPoints(_, _, _)
SumPoints(systems, cluster, k) ==
    IF k = 0 THEN [x |-> R(0), y |-> R(0)]
    ELSE LET rest == SumPoints(systems, cluster, k - 1)
         IN  [x |-> RAdd(rest.x, systems[cluster[k]].x),
              y |-> RAdd(rest.y, systems[cluster[k]].y)]

\* centerMap.set(clusterIndex++, ...) for every cluster of every alliance
RECURSIVE AllianceCenters(_, _, _, _)
AllianceCenters(groups, g, c, centerMap) ==
    IF g > Len(groups) THEN centerMap
    ELSE LET systems == groups[g].systems
             clusters == Clusters(systems, 1, {}, << >>)
         IN  IF c > Len(clusters) THEN AllianceCenters(groups, g + 1, 1, centerMap)
             ELSE LET cluster == clusters[c]
                      sum == SumPoints(systems, cluster, Len(cluster))
                      centerX == RDiv(sum.x, R(Len(cluster)))
                      centerY == RDiv(sum.y, R(Len(cluster)))
                  IN  AllianceCenters(groups, g, c + 1,
                          Append(centerMap,
                                 [id |-> Len(centerMap),
                                  x |-> RMul(centerX, R(Len(cluster))),
                                  y |-> RMul(centerY, R(Len(cluster))),
                                  count |-> Len(cluster),
                                  name |-> systems[1].name,
                                  allianceId |-> groups[g].allianceId]))

\* the centerMap of one render pass
CenterMap(md, dims, cam, mode, sov, ad) ==
    IF mode = "faction" /\ sov # Null
    THEN FactionCenters(md, dims, cam, sov[1], 1, << >>)
    ELSE IF mode = "alliance" /\ ad # Null
    THEN AllianceCenters(AllianceSystems(md, dims, cam, ad[1], 1, << >>), 1, 1, << >>)
    ELSE RegionCenters(md, dims, cam, 1, << >>)

\* the anchors drawn: centerX = data.x / data.count, centerY = data.y / data.count
Anchors(centerMap) ==
    [i \in 1..Len(centerMap) |->
        [id |-> centerMap[i].id, text |-> centerMap[i].name,
         x |-> RDiv(centerMap[i].x, R(centerMap[i].count)),
         y |-> RDiv(centerMap[i].y, R(centerMap[i].count))]]

(***************************************************************************)
(* State after construction and mount of a view.                           *)
(***************************************************************************)
\* local data sets, by the key of their system
StarAtOrigin == Some([_key |-> 1, position |-> Null, radius |-> 0, typeID |-> 6])

\* a planet 8 pixels from the star, which the relaxation separates
CloseSystem ==
    [system |-> [_key |-> 1],
     star |-> StarAtOrigin,
     planets |-> << Planet(11, PXZ(2, 0), 13), Planet(12, PXZ(100, 0), 13) >>,
     moons |-> << >>,
     stargates |-> << Body(21, PXZ(0, 100)) >>,
     stations |-> << Body(31, Null) >>]

\* a station at the position of the star
StackedSystem ==
    [system |-> [_key |-> 2],
     star |-> StarAtOrigin,
     planets |-> << Planet(11, PXZ(50, 50), 14) >>,
     moons |-> << >>,
     stargates |-> << >>,
     stations |-> << Body(31, PXZ(0, 0)), Body(32, PXZ(-50, -50)) >>]

SystemLayouts == { CloseSystem, StackedSystem }

\* a system of which only the star is known: its bounding box has no size
LoneStar ==
    [system |-> [_key |-> 3],
     star |-> StarAtOrigin,
     planets |-> << >>, moons |-> << >>, stargates |-> << >>, stations |-> << >>]

\* a system without star, planets, stargates or stations
EmptySystem ==
    [system |-> [_key |-> 4],
     star |-> Null,
     planets |-> << >>, moons |-> << >>, stargates |-> << >>, stations |-> << >>]

\* the systems the dataset holds
SystemRecords == SystemLayouts \cup { LoneStar, EmptySystem }

\* the systemId props of the model: the keys of the dataset and a key that
\* the dataset does not hold
SystemIds == { sd.system._key : sd \in SystemRecords } \cup {9}

\* map data: one system, two systems at one position, no system
SingleSystem == << Sys(1, "Aa", 10, P2(7, 9), P2(7, 9)) >>
TwinSystems == << Sys(1, "Aa", 10, P2(5, 5), P2(5, 5)), Sys(2, "Ba", 20, Null, P2(5, 5)) >>
PlacementLayouts ==
    { [systems |-> DenseSystems, regions |-> Regions],
      [systems |-> MixedSystems, regions |-> Regions],
      [systems |-> SingleSystem, regions |-> Regions],
      [systems |-> TwinSystems, regions |-> Regions],
      [systems |-> << >>, regions |-> Regions] }

NewWheel(dims) ==
    [dims |-> dims, wheelRafId |-> FALSE, pendingZoomDelta |-> 0,
     lastWheelMouse |-> [x |-> 0, y |-> 0]]

InitState ==
    /\ view \in {"map", "system"}
    /\ dimensions = [width |-> 800, height |-> 600]
    /\ mapData = Null
    /\ systemData = Null
    /\ loading = TRUE
    /\ cameraRef = Cam(R(0), R(0), IF view = "map" THEN R(2) ELSE R(1))
    /\ camera = cameraRef
    /\ cameraInitialized = FALSE
    /\ isDragging = FALSE
    /\ dragStart = [x |-> R(0), y |-> R(0)]
    /\ mouseDownPos = [x |-> 0, y |-> 0]
    /\ lastPointer = [x |-> 0, y |-> 0]
    /\ renderRequested = FALSE
    /\ wheel = Null
    /\ staleWheel = << >>
    /\ hovered = Null
    /\ nav = << >>
    /\ wheelFrames = 0
    /\ drags = 0
    /\ resizes = 0
    /\ adjustedPositions = << >>
    /\ selected = Null
    /\ colorMode = "region"
    /\ sovereigntyData = Null
    /\ allianceData = Null
    /\ error = Null
    /\ imageCache = << >>
    /\ imageLoadRafId = 0
    /\ pendingImageUpdates = 0
    /\ imageLoadTrigger = 0
    /\ searchQuery = << >>
    /\ searchDebounce = Null
    /\ filteredResults = << >>
    /\ showAutocomplete = FALSE
    /\ cachedData = [faction |-> Null, alliance |-> Null]
    /\ now = 0
    /\ fetching = << >>
    /\ returned = Null

\* a view mounted on data the dataset holds: the local view for one of the
\* systems of SystemLayouts, its request in flight
InitView ==
    /\ InitState
    /\ systemId \in (IF view = "map" THEN {0}
                     ELSE { sd.system._key : sd \in SystemLayouts })
    /\ inFlight = IF view = "map" THEN {} ELSE {systemId}

Init ==
    /\ InitView
    /\ stargates = << >>
    /\ cachedMapData = Null

\* which of its three trees a view renders: the loading screen, the error
\* box or the canvas with its handlers
Screen(v, ld, initialized, err, sd) ==
    IF ld \/ ~initialized THEN "loading"
    ELSE IF err # Null \/ (v = "system" /\ sd = Null) THEN "error"
    ELSE "canvas"

\* the canvas is rendered and its handlers are attached
CanvasShown == Screen(view, loading, cameraInitialized, error, systemData) = "canvas"

\* pointer positions inside the canvas, in canvas pixels
MousePoints(dims) ==
    { [x |-> dims.width \div 2, y |-> dims.height \div 2],
      [x |-> dims.width \div 2 + 5, y |-> dims.height \div 2],
      [x |-> dims.width \div 2 + 250, y |-> dims.height \div 2 - 250] }

(***************************************************************************)
(* Effects.                                                                *)
(***************************************************************************)
\* the data of the view is loaded with at least one thing to centre on
HasData(v, md, sd) ==
    IF v = "map" THEN md # Null /\ Len(md[1].systems) > 0 ELSE sd # Null

InitialCamera(v, md, sd, dims) ==
    IF v = "map" THEN MapInitialCamera(md[1], dims) ELSE LocalInitialCamera(sd[1], dims)

\* a render pass that writes its entries without clearing the cache first
RenderAdjustedKept(v, sd, dims, shown) ==
    IF v = "system" /\ shown
    THEN LET new == AdjustedOf(Relax(CollectMarkers(sd[1], dims)).objs)
         IN  [ref \in DOMAIN adjustedPositions \cup DOMAIN new |->
                 IF ref \in DOMAIN new THEN new[ref] ELSE adjustedPositions[ref]]
    ELSE adjustedPositions

\* the relaxed marker positions the local render effect stores; the effect
\* returns early without a canvas
RenderAdjusted(v, sd, dims, shown) ==
    IF v = "system" /\ shown
    THEN AdjustedOf(Relax(CollectMarkers(sd[1], dims)).objs)
    ELSE adjustedPositions

\* the typeIDs the drawing loop passes to loadImage: those of the star and
\* of the planets collected for drawing, when truthy
DrawnTypeIDs(sd) ==
    { b.typeID : b \in { c \in (IF sd.star = Null THEN {} ELSE {sd.star[1]})
                                \cup { q \in SeqToSet(sd.planets) : q.position # Null } :
                          c.typeID # 0 } }

\* loadImage without the lookup: a new Image is requested and stored at
\* every call
loadImageUncached(cache, typeID) ==
    [t \in DOMAIN cache \cup {typeID} |-> IF t = typeID THEN "loading" ELSE cache[t]]

\* loadImage(typeID): the cached image if the cache has one, else a new
\* Image whose request starts, stored in the cache before it is returned
loadImage(cache, typeID) ==
    IF typeID \in DOMAIN cache THEN cache
    ELSE [t \in DOMAIN cache \cup {typeID} |->
             IF t = typeID THEN "loading" ELSE cache[t]]

RECURSIVE LoadImages(_, _)
LoadImages(cache, typeIDs) ==
    IF typeIDs = {} THEN cache
    ELSE LET t == CHOOSE t \in typeIDs : TRUE
         IN  LoadImages(loadImage(cache, t), typeIDs \ {t})

\* img.complete of an image element: false only while its request runs
Complete(img) == img # "loading"

\* the branch the drawing loop takes for a star or planet with this typeID:
\* const img = loadImage(typeID); if (img && img.complete) drawImage, else
\* the filled circle
MarkerShape(cache, typeID) ==
    IF Complete(loadImage(cache, typeID)[typeID]) THEN "image" ELSE "fallback"

\* the image cache after the drawing loop of a render pass
RenderImages(v, sd, shown, cache) ==
    IF v = "system" /\ shown THEN LoadImages(cache, DrawnTypeIDs(sd[1])) ELSE cache

\* the wheel effect and the canvas its listener is attached to.  The effect
\* runs again (rewire) when the dimensions or cameraInitialized changed: the
\* old listener is removed and a new closure listens if there is a canvas.
\* Without a run of the effect, the listener is lost with the canvas when
\* the view leaves the canvas tree.  A frame that the old closure requested
\* is not cancelled.
WireCanvas(rewire, shown, dims) ==
    LET lost == rewire \/ (CanvasShown /\ ~shown)
    IN  /\ wheel' = IF rewire /\ shown THEN Some(NewWheel(dims))
                    ELSE IF lost THEN Null ELSE wheel
        /\ staleWheel' = IF lost /\ wheel # Null /\ wheel[1].wheelRafId
                         THEN Append(staleWheel, wheel[1]) ELSE staleWheel

\* the effects that run after the data or the dimensions changed: camera
\* (re)initialization, the wheel effect, the render pass; ld and err are the
\* loading flag and the error after the change
RunEffects(md, sd, dims, ld, err) ==
    LET has == HasData(view, md, sd)
        init == cameraInitialized \/ has
        rewire == init /\ (~cameraInitialized \/ dims # dimensions)
        shown == Screen(view, ld, init, err, sd) = "canvas"
    IN  /\ IF has
           THEN /\ cameraRef' = InitialCamera(view, md, sd, dims)
                /\ camera' = InitialCamera(view, md, sd, dims)
           ELSE UNCHANGED <<cameraRef, camera>>
        /\ cameraInitialized' = init
        /\ WireCanvas(rewire, shown, dims)
        /\ adjustedPositions' = RenderAdjusted(view, sd, dims, shown)
        /\ imageCache' = RenderImages(view, sd, shown, imageCache)

(***************************************************************************)
(* The system detail endpoint.                                             *)
(***************************************************************************)
\* GET /api/map/system/[id] for an integer id: 404 for a system the dataset
\* does not hold, else the records of the system
SystemDetailGET(records, id) ==
    IF \A sd \in records : sd.system._key # id
    THEN [status |-> 404, body |-> [error |-> "System not found"]]
    ELSE [status |-> 200, body |-> CHOOSE sd \in records : sd.system._key = id]

(***************************************************************************)
(* Data arrival and resize.                                                *)
(***************************************************************************)
\* loadMap: the response arrived
LoadMap(md) ==
    /\ view = "map" /\ loading
    /\ mapData' = Some(md)
    /\ loading' = FALSE
    /\ RunEffects(Some(md), systemData, dimensions, FALSE, error)
    /\ nav' = << >>
    /\ UNCHANGED <<overlayVars, apiVars, imageRafVars, searchVars, loadVars, view, dimensions, systemData, isDragging, dragStart, mouseDownPos, lastPointer,
                   renderRequested, hovered, wheelFrames, drags, resizes, selected>>

\* loadMap: the request failed (the response is not OK, or fetch threw with
\* message): catch and finally; mapData stays null, so the camera
\* initialization effect returns at its first line
LoadMapFailed(message) ==
    /\ view = "map" /\ loading
    /\ error' = Some(message)
    /\ loading' = FALSE
    /\ WireCanvas(FALSE, FALSE, dimensions)
    /\ nav' = << >>
    /\ UNCHANGED <<overlayVars, apiVars, imageVars, searchVars, inFlight, systemId, view, dimensions, mapData, systemData, cameraRef, camera,
                   cameraInitialized, isDragging, dragStart, mouseDownPos, lastPointer,
                   renderRequested, hovered, wheelFrames, drags, resizes,
                   adjustedPositions, selected>>

\* the loadSystemData effect when the systemId prop changes to id: the
\* request is sent and the loading screen replaces the canvas; the model
\* keeps at most one request per id in flight
loadSystemData(id) ==
    /\ view = "system" /\ id # systemId
    /\ id \notin inFlight
    /\ systemId' = id
    /\ inFlight' = inFlight \cup {id}
    /\ loading' = TRUE
    /\ WireCanvas(FALSE, FALSE, dimensions)
    /\ nav' = << >>
    /\ UNCHANGED <<overlayVars, apiVars, imageVars, searchVars, error, view, dimensions, mapData, systemData, cameraRef, camera,
                   cameraInitialized, isDragging, dragStart, mouseDownPos, lastPointer,
                   renderRequested, hovered, wheelFrames, drags, resizes,
                   adjustedPositions, selected>>

\* loadSystemData: the response of a request in flight arrived and is OK
LoadSystem(sd) ==
    /\ view = "system"
    /\ sd.system._key \in inFlight
    /\ inFlight' = inFlight \ {sd.system._key}
    /\ systemData' = Some(sd)
    /\ loading' = FALSE
    /\ RunEffects(mapData, Some(sd), dimensions, FALSE, error)
    /\ nav' = << >>
    /\ UNCHANGED <<overlayVars, apiVars, imageRafVars, searchVars, error, systemId, view, dimensions, mapData, isDragging, dragStart, mouseDownPos, lastPointer,
                   renderRequested, hovered, wheelFrames, drags, resizes, selected>>

\* loadSystemData: the request of id failed (the response is not OK, or
\* fetch threw with message): catch and finally
LoadSystemFailed(id, message) ==
    /\ view = "system"
    /\ id \in inFlight
    /\ inFlight' = inFlight \ {id}
    /\ error' = Some(message)
    /\ loading' = FALSE
    /\ WireCanvas(FALSE, FALSE, dimensions)
    /\ nav' = << >>
    /\ UNCHANGED <<overlayVars, apiVars, imageVars, searchVars, systemId, view, dimensions, mapData, systemData, cameraRef, camera,
                   cameraInitialized, isDragging, dragStart, mouseDownPos, lastPointer,
                   renderRequested, hovered, wheelFrames, drags, resizes,
                   adjustedPositions, selected>>

\* updateDimensions on a window resize
Resize(dims) ==
    /\ resizes < MaxResizes
    /\ dims # dimensions
    /\ dimensions' = dims
    /\ RunEffects(mapData, systemData, dims, loading, error)
    /\ resizes' = resizes + 1
    /\ nav' = << >>
    /\ UNCHANGED <<overlayVars, apiVars, imageRafVars, searchVars, loadVars, view, mapData, systemData, loading, isDragging, dragStart,
                   mouseDownPos, lastPointer, renderRequested, hovered, wheelFrames, drags, selected>>

(***************************************************************************)
(* Search box of the map view.  The names of the search data sets and the  *)
(* queries are sequences of characters.                                    *)
(***************************************************************************)
\* String.prototype.toLowerCase over the letters of the model
LowerChar(c) ==
    CASE c = "A" -> "a" [] c = "B" -> "b" [] c = "C" -> "c" [] OTHER -> c

toLowerCase(str) == [i \in 1..Len(str) |-> LowerChar(str[i])]

\* String.prototype.trim
RECURSIVE trim(_)
trim(str) ==
    IF str = << >> THEN str
    ELSE IF Head(str) = " " THEN trim(Tail(str))
    ELSE IF str[Len(str)] = " " THEN trim(SubSeq(str, 1, Len(str) - 1))
    ELSE str

\* String.prototype.includes
includes(str, part) ==
    \E i \in 0..(Len(str) - Len(part)) : SubSeq(str, i + 1, i + Len(part)) = part

\* one loop of the search: push every entry whose lowered name includes the
\* query and break once the results hold 10
RECURSIVE SearchLoop(_, _, _, _, _)
SearchLoop(list, type, lowerQuery, i, results) ==
    IF i > Len(list) THEN results
    ELSE IF includes(toLowerCase(list[i].name), lowerQuery)
         THEN LET pushed == Append(results, [type |-> type, name |-> list[i].name,
                                             id |-> list[i]._key])
              IN  IF Len(pushed) >= 10 THEN pushed
                  ELSE SearchLoop(list, type, lowerQuery, i + 1, pushed)
         ELSE SearchLoop(list, type, lowerQuery, i + 1, results)

\* a search that runs the loop over the regions whatever the systems gave
SearchUngated(md, query) ==
    SearchLoop(md.regions, "region", toLowerCase(query), 1,
               SearchLoop(md.systems, "system", toLowerCase(query), 1, << >>))

\* the body of the debounced search: the results it passes to
\* setFilteredResults
Search(md, query) ==
    LET lowerQuery == toLowerCase(query)
        systems == SearchLoop(md.systems, "system", lowerQuery, 1, << >>)
    IN  IF Len(systems) < 10
        THEN SearchLoop(md.regions, "region", lowerQuery, 1, systems)
        ELSE systems

\* handleSearchChange without the clearTimeout: a query that is blank leaves
\* the pending timeout running
handleSearchChangeKeeping(query) ==
    /\ view = "map" /\ CanvasShown
    /\ searchQuery' = query
    /\ IF trim(query) = << >> \/ mapData = Null
       THEN /\ filteredResults' = << >>
            /\ showAutocomplete' = FALSE
            /\ UNCHANGED searchDebounce
       ELSE /\ searchDebounce' = Some([query |-> query, mapData |-> mapData[1]])
            /\ UNCHANGED <<filteredResults, showAutocomplete>>
    /\ nav' = << >>
    /\ UNCHANGED <<overlayVars, apiVars, imageVars, loadVars, view, dimensions, mapData,
                   systemData, loading, cameraRef, camera, cameraInitialized,
                   isDragging, dragStart, mouseDownPos, lastPointer, renderRequested, wheel,
                   staleWheel, hovered, wheelFrames, drags, resizes, adjustedPositions,
                   selected>>

\* onChange of the search input: the pending timeout is cleared; a blank
\* query or missing map data empties the list, any other query starts the
\* timeout of 300 ms, whose closure holds the query and the map data
handleSearchChange(query) ==
    /\ view = "map" /\ CanvasShown
    /\ searchQuery' = query
    /\ IF trim(query) = << >> \/ mapData = Null
       THEN /\ filteredResults' = << >>
            /\ showAutocomplete' = FALSE
            /\ searchDebounce' = Null
       ELSE /\ searchDebounce' = Some([query |-> query, mapData |-> mapData[1]])
            /\ UNCHANGED <<filteredResults, showAutocomplete>>
    /\ nav' = << >>
    /\ UNCHANGED <<overlayVars, apiVars, imageVars, loadVars, view, dimensions, mapData,
                   systemData, loading, cameraRef, camera, cameraInitialized,
                   isDragging, dragStart, mouseDownPos, lastPointer, renderRequested, wheel,
                   staleWheel, hovered, wheelFrames, drags, resizes, adjustedPositions,
                   selected>>

\* the timeout of the search fires
SearchTimeout ==
    /\ view = "map" /\ searchDebounce # Null
    /\ LET results == Search(searchDebounce[1].mapData, searchDebounce[1].query)
       IN  /\ filteredResults' = results
           /\ showAutocomplete' = (Len(results) > 0)
    /\ searchDebounce' = Null
    /\ nav' = << >>
    /\ UNCHANGED <<overlayVars, apiVars, imageVars, loadVars, searchQuery, view, dimensions,
                   mapData, systemData, loading, cameraRef, camera, cameraInitialized,
                   isDragging, dragStart, mouseDownPos, lastPointer, renderRequested, wheel,
                   staleWheel, hovered, wheelFrames, drags, resizes, adjustedPositions,
                   selected>>

(***************************************************************************)
(* Marker images of the local view.                                        *)
(***************************************************************************)
\* img.onload: the image is stored again, counted, and a frame is requested
\* unless one is pending (imageLoadRafId.current === null)
ImageLoaded(typeID) ==
    /\ view = "system"
    /\ typeID \in DOMAIN imageCache /\ imageCache[typeID] = "loading"
    /\ imageCache' = [imageCache EXCEPT ![typeID] = "loaded"]
    /\ pendingImageUpdates' = pendingImageUpdates + 1
    /\ imageLoadRafId' = IF imageLoadRafId = 0 THEN 1 ELSE imageLoadRafId
    /\ nav' = << >>
    /\ UNCHANGED <<overlayVars, apiVars, searchVars, loadVars, imageLoadTrigger, view, dimensions,
                   mapData, systemData, loading, cameraRef, camera, cameraInitialized,
                   isDragging, dragStart, mouseDownPos, lastPointer, renderRequested, wheel,
                   staleWheel, hovered, wheelFrames, drags, resizes, adjustedPositions,
                   selected>>

\* the request of an image ends in an error: the image has no onerror
\* handler, and its entry stays in the cache
ImageFailed(typeID) ==
    /\ view = "system"
    /\ typeID \in DOMAIN imageCache /\ imageCache[typeID] = "loading"
    /\ imageCache' = [imageCache EXCEPT ![typeID] = "failed"]
    /\ nav' = << >>
    /\ UNCHANGED <<overlayVars, apiVars, searchVars, loadVars, imageRafVars, view, dimensions,
                   mapData, systemData, loading, cameraRef, camera, cameraInitialized,
                   isDragging, dragStart, mouseDownPos, lastPointer, renderRequested, wheel,
                   staleWheel, hovered, wheelFrames, drags, resizes, adjustedPositions,
                   selected>>

\* the frame requested by img.onload:
\*   setImageLoadTrigger((prev) => prev + pendingImageUpdates.current);
\*   pendingImageUpdates.current = 0; imageLoadRafId.current = null;
\* The updater reads the ref when React runs it: at once, before the reset,
\* when the update is computed eagerly, or in the next render, after the
\* reset, when it is queued; read is what it finds.  A changed trigger runs
\* the render effect again.
ImageFrame ==
    /\ view = "system" /\ imageLoadRafId > 0
    /\ \E read \in {pendingImageUpdates, 0} :
          /\ imageLoadTrigger' = imageLoadTrigger + read
          /\ adjustedPositions' =
                RenderAdjusted(view, systemData, dimensions, read # 0 /\ CanvasShown)
          /\ imageCache' = RenderImages(view, systemData, read # 0 /\ CanvasShown, imageCache)
    /\ pendingImageUpdates' = 0
    /\ imageLoadRafId' = 0
    /\ nav' = << >>
    /\ UNCHANGED <<overlayVars, apiVars, searchVars, loadVars, view, dimensions, mapData, systemData,
                   loading, cameraRef, camera, cameraInitialized, isDragging, dragStart,
                   mouseDownPos, lastPointer, renderRequested, wheel, staleWheel, hovered,
                   wheelFrames, drags, resizes, selected>>

(***************************************************************************)
(* Overlays of the map view.                                               *)
(***************************************************************************)
uiVars == <<view, dimensions, mapData, loading, cameraRef, camera,
            cameraInitialized, isDragging, dragStart, mouseDownPos, lastPointer,
            renderRequested, wheel, staleWheel, hovered, nav,
            wheelFrames, drags, resizes, systemData, adjustedPositions,
            selected, loadVars, imageVars, searchVars>>

\* loadSovereignty: the response arrived, or {} after a failure
LoadSovereignty(data) ==
    /\ view = "map" /\ sovereigntyData = Null
    /\ sovereigntyData' = Some(data)
    /\ UNCHANGED <<uiVars, colorMode, allianceData, apiVars>>

\* loadAllianceSovereignty: the response arrived, or {} after a failure
LoadAllianceSovereignty(data) ==
    /\ view = "map" /\ allianceData = Null
    /\ allianceData' = Some(data)
    /\ UNCHANGED <<uiVars, colorMode, sovereigntyData, apiVars>>

\* onClick of a "Color by" button
setColorMode(mode) ==
    /\ view = "map" /\ CanvasShown
    /\ colorMode' = mode
    /\ UNCHANGED <<uiVars, sovereigntyData, allianceData, apiVars>>

\* the catch branch of both overlay loads: console.error and set...Data({})
FailedOverlay == Some(<< >>)

\* loadSovereignty: the fetch threw or the response was not ok
LoadSovereigntyFailed ==
    /\ view = "map" /\ sovereigntyData = Null
    /\ sovereigntyData' = FailedOverlay
    /\ UNCHANGED <<uiVars, colorMode, allianceData, apiVars>>

\* loadAllianceSovereignty: the fetch threw or the response was not ok
LoadAllianceSovereigntyFailed ==
    /\ view = "map" /\ allianceData = Null
    /\ allianceData' = FailedOverlay
    /\ UNCHANGED <<uiVars, colorMode, sovereigntyData, apiVars>>

(***************************************************************************)
(* Marker colours of the map render effect: hsl(h, s%, l%) as a record of  *)
(* exact rationals.                                                        *)
(***************************************************************************)
Hsl(h, sat, l) == [h |-> h, s |-> sat, l |-> l]

\* 'hsl(0, 0%, 30%)'
NeutralColor == Hsl(R(0), R(0), R(30))

\* (id * 137.508) % 360, computed in thousandths without leaving 32 bits
GoldenHue(id) ==
    Norm((1000 * (((id % 360) * 137) % 360) + (((id % 360000) * 508) % 360000)) % 360000,
         1000)

\* systemSecurityRound, from hundredths to tenths: Math.ceil on [0, 0.05],
\* Math.round elsewhere
systemSecurityRound(security) ==
    IF security >= 0 /\ security <= 5
    THEN 0 - ((0 - security) \div 10)
    ELSE (2 * security + 10) \div 20

getSecurityColor(security) ==
    LET rounded == systemSecurityRound(security)
    IN  IF rounded >= 5
        THEN Hsl(R(60 + (rounded - 5) * 36), R(100), R(50 - (rounded - 5) * 4))
        ELSE IF rounded > 0
             THEN Hsl(R(30), RAdd(R(60), Norm((rounded - 1) * 40, 3)),
                      RAdd(R(30), Norm((rounded - 1) * 20, 3)))
             ELSE Hsl(R(0), R(100), R(40))

getRegionColor(regionId) == Hsl(GoldenHue(regionId), R(70), R(60))

getFactionColor(factionId) ==
    CASE factionId = 0 -> NeutralColor
      [] factionId = 500001 -> Hsl(R(210), R(100), R(50))
      [] factionId = 500002 -> Hsl(R(0), R(100), R(50))
      [] factionId = 500003 -> Hsl(R(45), R(100), R(50))
      [] factionId = 500004 -> Hsl(R(120), R(60), R(45))
      [] OTHER -> Hsl(GoldenHue(factionId), R(70), R(60))

getAllianceColor(allianceId) ==
    IF allianceId = 0 THEN NeutralColor ELSE Hsl(GoldenHue(allianceId), R(70), R(60))

\* a marker that takes the colour of its region when its overlay has no entry
MarkerColorByRegion(system, mode, sov, ad) ==
    getRegionColor(system.regionID)

\* the colour of a system marker: sov and ad are the overlay states, Null
\* until loaded (sovereigntyData?.[system._key], allianceData?.[system._key])
MarkerColor(system, mode, sov, ad) ==
    CASE mode = "region" -> getRegionColor(system.regionID)
      [] mode = "security" -> getSecurityColor(system.securityStatus)
      [] mode = "faction" ->
            LET factionId == IF sov # Null /\ system._key \in DOMAIN sov[1]
                             THEN sov[1][system._key] ELSE 0
            IN  IF factionId # 0 THEN getFactionColor(factionId) ELSE NeutralColor
      [] mode = "alliance" ->
            LET allianceInfo == IF ad # Null /\ system._key \in DOMAIN ad[1]
                                THEN ad[1][system._key] ELSE Null
            IN  IF allianceInfo # Null THEN getAllianceColor(allianceInfo[1].alliance_id)
                ELSE NeutralColor
      [] OTHER -> getRegionColor(system.regionID)

(***************************************************************************)
(* Pointer handlers.                                                       *)
(***************************************************************************)
\* the drag anchor of a mouse-down: { x: e.clientX - cameraRef.current.x, ... }
DragAnchor(cam, m) == [x |-> RSub(R(m.x), cam.x), y |-> RSub(R(m.y), cam.y)]

\* a drag move that sets the offset to the cursor position
DragToCursor(cam, m, start) == [cam EXCEPT !.x = R(m.x), !.y = R(m.y)]

\* the drag move: cameraRef.current.x = e.clientX - dragStart.x, ...
DragTo(cam, m, start) ==
    [cam EXCEPT !.x = RSub(R(m.x), start.x), !.y = RSub(R(m.y), start.y)]

handleMouseDown(m) ==
    /\ CanvasShown
    /\ drags < MaxDrags
    /\ isDragging' = TRUE
    /\ dragStart' = DragAnchor(cameraRef, m)
    /\ mouseDownPos' = m
    /\ lastPointer' = m
    /\ drags' = drags + 1
    /\ nav' = << >>
    /\ UNCHANGED <<overlayVars, apiVars, imageVars, searchVars, loadVars, view, dimensions, mapData, systemData, loading, cameraRef, camera,
                   cameraInitialized, renderRequested, wheel, staleWheel, hovered,
                   wheelFrames, resizes, adjustedPositions, selected>>

\* the hover indicator after a pointer move that is not a drag
HoverAfter(m) ==
    IF view = "map"
    THEN LET nearest == MapHoverQuery(mapData[1], dimensions, cameraRef, m)
             \* nearestSystem?.name and hoveredSystem?.name
             name == IF nearest = Null THEN "" ELSE nearest[1].name
             old == IF hovered = Null THEN "" ELSE hovered[1]
         IN  IF name # old
             THEN (IF nearest = Null THEN Null ELSE Some(name))
             ELSE hovered
    ELSE LET found == findObjectAtPosition(systemData[1], adjustedPositions, dimensions,
                                           cameraRef, m, HoverBuffer)
         IN  IF found = Null THEN Null ELSE Some(found)

\* a handler that runs the hover query during a drag too
handleMouseMoveHovering(m) ==
    /\ CanvasShown
    /\ IF isDragging
       THEN /\ cameraRef' = DragTo(cameraRef, m, dragStart)
            /\ renderRequested' = TRUE
            /\ lastPointer' = m
            /\ hovered' = HoverAfter(m)
       ELSE /\ hovered' = HoverAfter(m)
            /\ UNCHANGED <<cameraRef, renderRequested, lastPointer>>
    /\ nav' = << >>
    /\ UNCHANGED <<overlayVars, apiVars, imageVars, searchVars, loadVars, view, dimensions, mapData, systemData, loading, camera,
                   cameraInitialized, isDragging, dragStart, mouseDownPos, wheel,
                   staleWheel, wheelFrames, drags, resizes, adjustedPositions, selected>>

handleMouseMove(m) ==
    /\ CanvasShown
    /\ IF isDragging
       THEN /\ cameraRef' = DragTo(cameraRef, m, dragStart)
            /\ renderRequested' = TRUE
            /\ lastPointer' = m
            /\ UNCHANGED hovered
       ELSE /\ hovered' = HoverAfter(m)
            /\ UNCHANGED <<cameraRef, renderRequested, lastPointer>>
    /\ nav' = << >>
    /\ UNCHANGED <<overlayVars, apiVars, imageVars, searchVars, loadVars, view, dimensions, mapData, systemData, loading, camera,
                   cameraInitialized, isDragging, dragStart, mouseDownPos, wheel,
                   staleWheel, wheelFrames, drags, resizes, adjustedPositions, selected>>

handleMouseUp(m) ==
    /\ CanvasShown
    /\ camera' = IF isDragging THEN cameraRef ELSE camera
    /\ isDragging' = FALSE
    /\ IF view = "map"
       THEN /\ nav' = IF IsClick(mouseDownPos, m)
                      THEN MapClickQuery(mapData[1], dimensions, cameraRef, m) ELSE << >>
            /\ UNCHANGED selected
       ELSE /\ nav' = << >>
            /\ selected' =
                 LET found == findObjectAtPosition(systemData[1], adjustedPositions,
                                                   dimensions, cameraRef, m, ClickBuffer)
                 IN  IF IsClick(mouseDownPos, m) /\ found # Null THEN found ELSE selected
    /\ UNCHANGED <<overlayVars, apiVars, imageVars, searchVars, loadVars, view, dimensions, mapData, systemData, loading, cameraRef,
                   cameraInitialized, dragStart, mouseDownPos, lastPointer, renderRequested, wheel,
                   staleWheel, hovered, wheelFrames, drags, resizes, adjustedPositions>>

handleMouseLeave ==
    /\ CanvasShown
    /\ isDragging' = FALSE
    /\ hovered' = Null
    /\ nav' = << >>
    /\ UNCHANGED <<overlayVars, apiVars, imageVars, searchVars, loadVars, view, dimensions, mapData, systemData, loading, cameraRef, camera,
                   cameraInitialized, dragStart, mouseDownPos, lastPointer, renderRequested, wheel,
                   staleWheel, wheelFrames, drags, resizes, adjustedPositions, selected>>

\* a callback that clears the flag without updating the camera state
DragFrameUnpublished ==
    /\ renderRequested
    /\ renderRequested' = FALSE
    /\ camera' = camera
    /\ nav' = << >>
    /\ UNCHANGED <<overlayVars, apiVars, imageVars, searchVars, loadVars, view, dimensions, mapData, systemData, loading, cameraRef,
                   cameraInitialized, isDragging, dragStart, mouseDownPos, lastPointer, wheel,
                   staleWheel, hovered, wheelFrames, drags, resizes, adjustedPositions,
                   selected>>

\* the animation-frame callback requested by handleMouseMove
DragFrame ==
    /\ renderRequested
    /\ renderRequested' = FALSE
    /\ camera' = cameraRef
    /\ nav' = << >>
    /\ UNCHANGED <<overlayVars, apiVars, imageVars, searchVars, loadVars, view, dimensions, mapData, systemData, loading, cameraRef,
                   cameraInitialized, isDragging, dragStart, mouseDownPos, lastPointer, wheel,
                   staleWheel, hovered, wheelFrames, drags, resizes, adjustedPositions,
                   selected>>

(***************************************************************************)
(* Wheel zoom.                                                             *)
(***************************************************************************)
\* frames requested and not yet run
PendingWheelFrames ==
    Len(staleWheel) + (IF wheel # Null /\ wheel[1].wheelRafId THEN 1 ELSE 0)

\* handleWheelEvent; delta is -1 for deltaY > 0 and +1 otherwise (tenths);
\* the model requests at most maxFrames frames in a behaviour
handleWheelEventUpTo(maxFrames, m, delta) ==
    /\ CanvasShown /\ wheel # Null
    /\ wheel[1].pendingZoomDelta + delta \in -MaxZoomOut..MaxZoomIn
    /\ wheel[1].wheelRafId \/ wheelFrames + PendingWheelFrames < maxFrames
    /\ wheel' = Some([wheel[1] EXCEPT !.pendingZoomDelta = @ + delta,
                                      !.lastWheelMouse = m,
                                      !.wheelRafId = TRUE])
    /\ nav' = << >>
    /\ UNCHANGED <<overlayVars, apiVars, imageVars, searchVars, loadVars, view, dimensions, mapData, systemData, loading, cameraRef, camera,
                   cameraInitialized, isDragging, dragStart, mouseDownPos, lastPointer,
                   renderRequested, staleWheel, hovered, wheelFrames, drags, resizes,
                   adjustedPositions, selected>>

handleWheelEvent(m, delta) == handleWheelEventUpTo(MaxWheelFrames, m, delta)

\* a callback that does not reset pendingZoomDelta
WheelFrameDeltaKept ==
    /\ wheel # Null /\ wheel[1].wheelRafId
    /\ staleWheel = << >>
    /\ cameraRef' = WheelApply(cameraRef, wheel[1].dims, wheel[1].lastWheelMouse,
                               wheel[1].pendingZoomDelta)
    /\ camera' = cameraRef'
    /\ wheel' = Some([wheel[1] EXCEPT !.wheelRafId = FALSE])
    /\ wheelFrames' = wheelFrames + 1
    /\ nav' = << >>
    /\ UNCHANGED <<overlayVars, apiVars, imageVars, searchVars, loadVars, view, dimensions, mapData, systemData, loading, cameraInitialized,
                   isDragging, dragStart, mouseDownPos, lastPointer, renderRequested, staleWheel,
                   hovered, drags, resizes, adjustedPositions, selected>>

\* the animation-frame callback of the current wheel closure
WheelFrame ==
    /\ wheel # Null /\ wheel[1].wheelRafId
    /\ staleWheel = << >>
    /\ cameraRef' = WheelApply(cameraRef, wheel[1].dims, wheel[1].lastWheelMouse,
                               wheel[1].pendingZoomDelta)
    /\ camera' = cameraRef'
    /\ wheel' = Some([wheel[1] EXCEPT !.wheelRafId = FALSE, !.pendingZoomDelta = 0])
    /\ wheelFrames' = wheelFrames + 1
    /\ nav' = << >>
    /\ UNCHANGED <<overlayVars, apiVars, imageVars, searchVars, loadVars, view, dimensions, mapData, systemData, loading, cameraInitialized,
                   isDragging, dragStart, mouseDownPos, lastPointer, renderRequested, staleWheel,
                   hovered, drags, resizes, adjustedPositions, selected>>

\* the animation-frame callback of a wheel closure that a later run of the
\* wheel effect replaced: it still holds its own dimensions and delta
StaleWheelFrame ==
    /\ staleWheel # << >>
    /\ LET w == Head(staleWheel)
       IN  cameraRef' = WheelApply(cameraRef, w.dims, w.lastWheelMouse,
                                  w.pendingZoomDelta)
    /\ camera' = cameraRef'
    /\ staleWheel' = Tail(staleWheel)
    /\ wheelFrames' = wheelFrames + 1
    /\ nav' = << >>
    /\ UNCHANGED <<overlayVars, apiVars, imageVars, searchVars, loadVars, view, dimensions, mapData, systemData, loading, cameraInitialized,
                   isDragging, dragStart, mouseDownPos, lastPointer, renderRequested, wheel,
                   hovered, drags, resizes, adjustedPositions, selected>>

(***************************************************************************)
(* Search-result selection (map view).                                     *)
(***************************************************************************)
handleSelectResult(result) ==
    /\ view = "map" /\ CanvasShown
    /\ LET c == SelectCamera(mapData[1], dimensions, result)
       IN  camera' = IF c = Null THEN camera ELSE c[1]
    /\ searchQuery' = << >>
    /\ showAutocomplete' = FALSE
    /\ filteredResults' = << >>
    /\ nav' = << >>
    /\ UNCHANGED <<overlayVars, apiVars, imageVars, searchDebounce, loadVars, view,
                   dimensions, mapData, systemData, loading, cameraRef,
                   cameraInitialized, isDragging, dragStart, mouseDownPos, lastPointer,
                   renderRequested, wheel, staleWheel, hovered, wheelFrames, drags,
                   resizes, adjustedPositions, selected>>

\* the entries of the autocomplete list that are selected
Selectable(md) ==
    { r \in SearchResults(md) : r.id \in { md.systems[Len(md.systems)]._key,
                                           md.regions[1]._key } }

(***************************************************************************)
(* Spec: the pointer, wheel and search handlers of both views, with wheel  *)
(* bursts of at most MaxBusyPending events per frame and one wheel frame.  *)
(***************************************************************************)
NearPoint(dims) == [x |-> dims.width \div 2 + 5, y |-> dims.height \div 2]
PointerLayouts ==
    { [systems |-> ExampleSystems, regions |-> Regions],
      [systems |-> DenseSystems, regions |-> Regions] }

Next ==
    \/ \E md \in PointerLayouts : LoadMap(md)
    \/ \E sd \in SystemLayouts : LoadSystem(sd)
    \/ \E dims \in Sizes : Resize(dims)
    \/ \E m \in MousePoints(dimensions) : handleMouseDown(m)
    \/ \E m \in MousePoints(dimensions) : handleMouseMove(m)
    \/ \E m \in MousePoints(dimensions) : handleMouseUp(m)
    \/ handleMouseLeave
    \/ DragFrame
    \/ \E delta \in {-1, 1} :
          /\ handleWheelEvent(NearPoint(dimensions), delta)
          /\ Abs(wheel'[1].pendingZoomDelta) <= MaxBusyPending
    \/ WheelFrame
    \/ StaleWheelFrame
    \/ \E result \in (IF mapData = Null THEN {} ELSE Selectable(mapData[1])) :
          handleSelectResult(result)

Spec == Init /\ [][Next]_vars

(***************************************************************************)
(* SpecZoom: wheel bursts of up to MaxZoomOut / MaxZoomIn events per frame *)
(* and MaxWheelFrames frames, at one cursor position, interleaved with one *)
(* drag, search selection and resize.                                      *)
(***************************************************************************)
ZoomPoint(dims) == [x |-> dims.width \div 2 + 250, y |-> dims.height \div 2 - 250]
Centre(dims) == [x |-> dims.width \div 2, y |-> dims.height \div 2]

NextZoom ==
    \/ LoadMap([systems |-> DenseSystems, regions |-> Regions])
    \/ LoadSystem(CloseSystem)
    \/ \E dims \in Sizes : Resize(dims)
    \/ handleMouseDown(ZoomPoint(dimensions))
    \/ isDragging /\ handleMouseMove(Centre(dimensions))
    \/ isDragging /\ handleMouseUp(Centre(dimensions))
    \/ DragFrame
    \/ \E delta \in {-1, 1} : handleWheelEvent(ZoomPoint(dimensions), delta)
    \/ WheelFrame
    \/ StaleWheelFrame
    \/ handleSelectResult([type |-> "system", id |-> 4])

SpecZoom == Init /\ [][NextZoom]_vars

(***************************************************************************)
(* SpecLabels: the map view with its overlays; the camera changes by       *)
(* search selection and by wheel frames of at most MaxBusyPending events.  *)
(***************************************************************************)
ColorModes == {"region", "security", "faction", "alliance"}

InitLabels == Init /\ view = "map"

NextLabels ==
    \/ \E md \in LabelLayouts : LoadMap(md)
    \/ \E data \in SovereigntyResponses : LoadSovereignty(data)
    \/ \E data \in AllianceResponses : LoadAllianceSovereignty(data)
    \/ LoadSovereigntyFailed
    \/ LoadAllianceSovereigntyFailed
    \/ \E mode \in ColorModes : setColorMode(mode)
    \/ \E dims \in Sizes : Resize(dims)
    \/ \E result \in (IF mapData = Null THEN {} ELSE Selectable(mapData[1])) :
          handleSelectResult(result)
    \/ \E delta \in {-1, 1} :
          /\ handleWheelEvent(NearPoint(dimensions), delta)
          /\ Abs(wheel'[1].pendingZoomDelta) <= MaxBusyPending
    \/ WheelFrame
    \/ StaleWheelFrame

SpecLabels == InitLabels /\ [][NextLabels]_vars

(***************************************************************************)
(* Map data endpoint.                                                      *)
(***************************************************************************)
\* the systems of the allowed regions, and a system outside of them
AllowedSystemIds == {1, 12, 21}
GateSystems == AllowedSystemIds \cup {99}

Gate(from, to) == [solarSystemID |-> from, destination |-> to]

\* the stargate records the loader returns: those of allowed systems
GateRecords ==
    { Gate(from, to) : from \in AllowedSystemIds, to \in GateSystems } \
        { Gate(id, id) : id \in GateSystems }

RECURSIVE GateLists(_)
GateLists(n) ==
    IF n = 0 THEN { << >> }
    ELSE GateLists(n - 1) \cup
         { Append(l, g) : l \in { l \in GateLists(n - 1) : Len(l) = n - 1 },
                          g \in GateRecords }

\* a key that keeps the direction of the gate
ConnectionKeyDirected(from, to) == ToString(from) \o "-" \o ToString(to)

\* key = from < to ? `${from}-${to}` : `${to}-${from}`
ConnectionKey(from, to) ==
    IF from < to THEN ToString(from) \o "-" \o ToString(to)
    ELSE ToString(to) \o "-" \o ToString(from)

\* the loop over the stargates: connectionSet and stargateConnections
RECURSIVE Connections(_, _, _, _)
Connections(gates, i, connectionSet, connections) ==
    IF i > Len(gates) THEN connections
    ELSE LET from == gates[i].solarSystemID
             to == gates[i].destination
             key == ConnectionKey(from, to)
         IN  IF from \notin AllowedSystemIds \/ to \notin AllowedSystemIds
             THEN Connections(gates, i + 1, connectionSet, connections)
             ELSE IF key \in connectionSet
             THEN Connections(gates, i + 1, connectionSet, connections)
             ELSE Connections(gates, i + 1, connectionSet \cup {key},
                              Append(connections, [from |-> from, to |-> to]))

\* GET /api/map/data with no cached response: the response is built and cached
GET ==
    /\ cachedMapData = Null
    /\ cachedMapData' = Some([stargateConnections |-> Connections(stargates, 1, {}, << >>)])
    /\ UNCHANGED <<uiVars, overlayVars, stargates, cacheVars>>

\* the endpoint with the stargate records of one dataset
InitData ==
    /\ InitView /\ view = "map"
    /\ stargates \in GateLists(MaxGates)
    /\ cachedMapData = Null

SpecData == InitData /\ [][GET]_vars

(***************************************************************************)
(* SpecLoad: loading and camera placement of both views.  The local view   *)
(* is opened for any of SystemIds and its systemId prop changes while      *)
(* requests are in flight; the responses arrive in any order.  The camera  *)
(* is moved by one drag.                                                   *)
(***************************************************************************)
MaxInFlight == 2

InitLoad ==
    /\ InitState
    /\ systemId \in (IF view = "map" THEN {0} ELSE SystemIds)
    /\ inFlight = IF view = "map" THEN {} ELSE {systemId}
    /\ stargates = << >>
    /\ cachedMapData = Null

NextLoad ==
    \/ \E md \in PlacementLayouts : LoadMap(md)
    \/ LoadMapFailed("Failed to load map data")
    \/ \E id \in SystemIds :
          /\ Cardinality(inFlight) < MaxInFlight
          /\ loadSystemData(id)
    \/ \E id \in inFlight :
          LET response == SystemDetailGET(SystemRecords, id)
          IN  /\ response.status = 200
              /\ LoadSystem(response.body)
    \/ \E id \in inFlight :
          /\ SystemDetailGET(SystemRecords, id).status # 200
          /\ LoadSystemFailed(id, "Failed to load system data")
    \/ \E dims \in Sizes : Resize(dims)
    \/ drags = 0 /\ handleMouseDown(ZoomPoint(dimensions))
    \/ isDragging /\ handleMouseMove(Centre(dimensions))
    \/ isDragging /\ handleMouseUp(Centre(dimensions))
    \/ DragFrame

SpecLoad == InitLoad /\ [][NextLoad]_vars

(***************************************************************************)
(* SpecWheel: bursts of up to MaxBurst wheel events per frame and          *)
(* MaxBursts frames in both views, with resizes that replace the wheel     *)
(* closure while a frame of the old closure is pending.                    *)
(***************************************************************************)
MaxBursts == 2
MaxBurst == 2

NextWheel ==
    \/ LoadMap([systems |-> ExampleSystems, regions |-> Regions])
    \/ LoadSystem(CloseSystem)
    \/ \E dims \in Sizes : Resize(dims)
    \/ \E delta \in {-1, 1} :
          /\ handleWheelEventUpTo(MaxBursts, NearPoint(dimensions), delta)
          /\ Abs(wheel'[1].pendingZoomDelta) <= MaxBurst
    \/ WheelFrame
    \/ StaleWheelFrame

SpecWheel == Init /\ [][NextWheel]_vars

(***************************************************************************)
(* SpecTies: hover and click over data sets in which several entities are  *)
(* at one distance from the cursor: at one position, or at two positions   *)
(* on either side of it.                                                   *)
(***************************************************************************)
\* two systems at the middle of the bounding box, in both array orders, and
\* two systems at the same distance on either side of the middle
TieLayouts ==
    LET corner == Sys(1, "Aa", 10, P2(0, 0), P2(0, 0))
        far == Sys(4, "Bb", 20, P2(500, 500), P2(500, 500))
        mid2 == Sys(2, "Ab", 10, P2(250, 250), P2(250, 250))
        mid3 == Sys(3, "Ba", 20, P2(250, 250), P2(250, 250))
        right == Sys(2, "Ab", 10, P2(252, 250), P2(252, 250))
        left == Sys(3, "Ba", 20, P2(248, 250), P2(248, 250))
    IN  { [systems |-> seq, regions |-> Regions] :
            seq \in { <<corner, mid2, mid3, far>>, <<corner, mid3, mid2, far>>,
                      <<corner, right, far, left>> } }

\* no star; two planets and a stargate at the origin, which the camera
\* centres, the planet of the larger key first
TiedSystem ==
    [system |-> [_key |-> 1],
     star |-> Null,
     planets |-> << Planet(12, PXZ(0, 0), 13), Planet(11, PXZ(0, 0), 13) >>,
     moons |-> << >>,
     stargates |-> << Body(21, PXZ(0, 0)) >>,
     stations |-> << Body(31, PXZ(100, 100)), Body(32, PXZ(-100, -100)) >>]

NextTies ==
    \/ \E md \in TieLayouts : LoadMap(md)
    \/ \E sd \in {TiedSystem, StackedSystem} : LoadSystem(sd)
    \/ \E dims \in Sizes : Resize(dims)
    \/ \E m \in MousePoints(dimensions) : handleMouseMove(m)
    \/ \E m \in MousePoints(dimensions) : handleMouseDown(m)
    \/ \E m \in MousePoints(dimensions) : handleMouseUp(m)
    \/ DragFrame
    \/ \E delta \in {-1, 1} :
          /\ handleWheelEvent(NearPoint(dimensions), delta)
          /\ Abs(wheel'[1].pendingZoomDelta) <= MaxBusyPending
    \/ WheelFrame
    \/ StaleWheelFrame

SpecTies == Init /\ [][NextTies]_vars

(***************************************************************************)
(* SpecClick: presses and releases at the middle of the canvas, 3 and 5    *)
(* pixels from it, and at its top left corner, over data sets that have an *)
(* entity drawn at the middle and one drawn at the corner.                 *)
(***************************************************************************)
\* a 700 x 500 box, so that the fit scale is 1 on the 800 x 600 surface: the
\* initial camera draws system 2 at the middle and system 3 at (0, 0)
CornerSystems ==
    << Sys(1, "Aa", 10, P2(1, 1), P2(1, 1)),
       Sys(2, "Ab", 10, P2(351, 251), P2(351, 251)),
       Sys(3, "Ba", 20, P2(151, 401), P2(151, 401)),
       Sys(4, "Bb", 20, P2(701, 501), P2(701, 501)) >>

\* a 600 x 400 box with the star at its lower right corner: the initial
\* camera draws the star at the middle and planet 11 at (0, 0)
CornerSystem ==
    [system |-> [_key |-> 1],
     star |-> StarAtOrigin,
     planets |-> << Planet(11, PXZ(-400, 300), 13), Planet(12, PXZ(-600, 0), 13) >>,
     moons |-> << >>,
     stargates |-> << >>,
     stations |-> << Body(31, PXZ(0, 400)) >>]

ClickPoints(dims) ==
    { [x |-> 2, y |-> 2],
      Centre(dims),
      [x |-> dims.width \div 2 + 3, y |-> dims.height \div 2],
      [x |-> dims.width \div 2 + 5, y |-> dims.height \div 2] }

NextClick ==
    \/ LoadMap([systems |-> CornerSystems, regions |-> Regions])
    \/ \E sd \in {CornerSystem, StackedSystem} : LoadSystem(sd)
    \/ \E dims \in Sizes : Resize(dims)
    \/ \E m \in ClickPoints(dimensions) : handleMouseDown(m)
    \/ \E m \in ClickPoints(dimensions) : handleMouseMove(m)
    \/ \E m \in ClickPoints(dimensions) : handleMouseUp(m)
    \/ handleMouseLeave
    \/ DragFrame

SpecClick == Init /\ [][NextClick]_vars

(***************************************************************************)
(* SpecRelax: render passes of the local view over data sets whose         *)
(* relaxation runs 1, 2, 3 and all 5 iterations, on both surface sizes.    *)
(***************************************************************************)
\* a star at the origin with planets at ps, on a 100 x 100 box
CrowdedSystem(k, ps) ==
    [system |-> [_key |-> k],
     star |-> StarAtOrigin,
     planets |-> [i \in 1..Len(ps) |-> Planet(10 + i, PXZ(ps[i][1], ps[i][2]), 13)],
     moons |-> << >>,
     stargates |-> << Body(21, PXZ(0, 100)) >>,
     stations |-> << Body(31, PXZ(100, 0)) >>]

RelaxLayouts ==
    { CloseSystem, StackedSystem,
      CrowdedSystem(1, << <<1, 0>>, <<0, 1>> >>),
      CrowdedSystem(2, << <<1, 0>>, <<2, 0>> >>),
      CrowdedSystem(1, << <<1, 1>>, <<2, 0>>, <<0, 2>>, <<1, 2>>, <<2, 1>> >>),
      CrowdedSystem(2, << >>) }

InitRelax == Init /\ view = "system"

NextRelax ==
    \/ \E id \in { sd.system._key : sd \in RelaxLayouts } :
          /\ Cardinality(inFlight) < MaxInFlight
          /\ loadSystemData(id)
    \/ \E sd \in RelaxLayouts : LoadSystem(sd)
    \/ \E dims \in Sizes : Resize(dims)
    \/ \E m \in MousePoints(dimensions) : handleMouseMove(m)

SpecRelax == InitRelax /\ [][NextRelax]_vars

(***************************************************************************)
(* The overlay endpoints: GET /api/map/sovereignty (faction warfare) and   *)
(* GET /api/map/alliance-sovereignty.  Each module keeps one cachedData;   *)
(* a handler runs to its first await, and goes on when the upstream        *)
(* request resolves or rejects.                                            *)
(***************************************************************************)
Endpoints == {"faction", "alliance"}

\* const CACHE_DURATION of the two modules, in ms
CACHE_DURATION(endpoint) ==
    IF endpoint = "faction" THEN 30 * 60 * 1000 ELSE 60 * 60 * 1000

\* the values Date.now() takes: each half hour since the start, with the
\* millisecond before it and the one after it
Instants ==
    { t \in { k * (30 * 60 * 1000) + e : k \in 0..MaxHalfHours, e \in {-1, 0, 1} } :
        t >= 0 }

\* the records of ESI /fw/systems/, /sovereignty/map/ (0: the optional id is
\* absent) and /universe/names/
Fw(system, owner) == [solar_system_id |-> system, owner_faction_id |-> owner]
Sov(system, alliance, faction) ==
    [system_id |-> system, alliance_id |-> alliance, faction_id |-> faction]
Named(id, category, name) == [id |-> id, category |-> category, name |-> name]

FwSystemLists ==
    { << >>, << Fw(1, 500001), Fw(2, 500004), Fw(1, 500002) >> }

SovereigntyMaps ==
    { << Sov(1, 1, 0), Sov(2, 0, 500001), Sov(3, 2, 0), Sov(4, 3, 500004) >>,
      << Sov(1, 2, 0) >> }

NameLists ==
    { << >>, << Named(1, "alliance", "One"), Named(2, "corporation", "Two") >> }

\* the last index of a list whose record has this value in this field
LastWith(list, field, value) ==
    CHOOSE i \in 1..Len(list) :
        /\ list[i][field] = value
        /\ \A j \in (i + 1)..Len(list) : list[j][field] # value

\* systemFactionMap: set(solar_system_id, owner_faction_id) for each system
\* in turn, then Object.fromEntries
SystemFactionMap(fwSystems) ==
    [system \in { fwSystems[i].solar_system_id : i \in 1..Len(fwSystems) } |->
        fwSystems[LastWith(fwSystems, "solar_system_id", system)].owner_faction_id]

\* allianceNameMap: the names of category 'alliance', by id
AllianceNameMap(allianceNames) ==
    LET alliances == SelectSeq(allianceNames, LAMBDA a : a.category = "alliance")
    IN  [id \in { alliances[i].id : i \in 1..Len(alliances) } |->
            alliances[LastWith(alliances, "id", id)].name]

\* result of the alliance handler: the entries with an alliance_id and no
\* faction_id, by system_id, each with the name of its alliance or, failing
\* that, `Alliance ${alliance_id}`
AllianceResult(sovMap, allianceNames) ==
    LET allianceSystems ==
            SelectSeq(sovMap, LAMBDA entry : entry.alliance_id # 0 /\ entry.faction_id = 0)
        allianceNameMap == AllianceNameMap(allianceNames)
    IN  [system \in { allianceSystems[i].system_id : i \in 1..Len(allianceSystems) } |->
            LET entry == allianceSystems[LastWith(allianceSystems, "system_id", system)]
            IN  [alliance_id |-> entry.alliance_id,
                 alliance_name |->
                    IF entry.alliance_id \in DOMAIN allianceNameMap
                       /\ allianceNameMap[entry.alliance_id] # ""
                    THEN allianceNameMap[entry.alliance_id]
                    ELSE "Alliance " \o ToString(entry.alliance_id)]]

\* NextResponse.json(body) and NextResponse.json({ error }, { status: 500 }).
\* The body of a response is held under the name of its endpoint, the other
\* name left empty, so that the two kinds of body are never compared.
JsonBody(endpoint, body) == [e \in Endpoints |-> IF e = endpoint THEN body ELSE << >>]
Json(endpoint, body) ==
    [endpoint |-> endpoint, status |-> 200, body |-> JsonBody(endpoint, body), error |-> ""]
ErrorJson(endpoint) ==
    [endpoint |-> endpoint, status |-> 500, body |-> JsonBody(endpoint, << >>),
     error |-> IF endpoint = "faction" THEN "Failed to load FW data"
               ELSE "Failed to load alliance sovereignty data"]

\* the cache test with an entry that is served at the age of CACHE_DURATION
FreshAtDuration(endpoint) ==
    /\ cachedData[endpoint] # Null
    /\ now - cachedData[endpoint][1].timestamp <= CACHE_DURATION(endpoint)

\* cachedData && Date.now() - cachedData.timestamp < CACHE_DURATION
Fresh(endpoint) ==
    /\ cachedData[endpoint] # Null
    /\ now - cachedData[endpoint][1].timestamp < CACHE_DURATION(endpoint)

\* a list without its i-th element
Without(list, i) == SubSeq(list, 1, i - 1) \o SubSeq(list, i + 1, Len(list))

\* time passes
Tick ==
    /\ \E t \in Instants : t > now /\ now' = t
    /\ UNCHANGED <<uiVars, overlayVars, stargates, cachedMapData, cachedData, fetching,
                   returned>>

\* GET of an endpoint up to its first await: the cached data is returned if
\* the cache is fresh, else the first upstream request is made
CachedGET(endpoint) ==
    /\ IF Fresh(endpoint)
       THEN /\ returned' = Some(Json(endpoint, cachedData[endpoint][1].data))
            /\ UNCHANGED fetching
       ELSE /\ Len(fetching) < MaxFetching
            /\ fetching' = Append(fetching, [endpoint |-> endpoint, sovMap |-> Null])
            /\ returned' = Null
    /\ UNCHANGED <<uiVars, overlayVars, stargates, cachedMapData, cachedData, now>>

\* the handler stores its result with the time of now and returns it
StoreAndReturn(i, endpoint, data) ==
    /\ cachedData' = [cachedData EXCEPT ![endpoint] =
                         Some([data |-> data, timestamp |-> now])]
    /\ returned' = Some(Json(endpoint, data))
    /\ fetching' = Without(fetching, i)
    /\ UNCHANGED <<uiVars, overlayVars, stargates, cachedMapData, now>>

\* faction GET: getFactionWarfareSystems() resolved
FactionSystemsFetched(i, fwSystems) ==
    /\ i \in 1..Len(fetching) /\ fetching[i].endpoint = "faction"
    /\ StoreAndReturn(i, "faction", SystemFactionMap(fwSystems))

\* alliance GET: getSovereigntyMap() resolved, getNames(allianceIds) is called
SovereigntyMapFetched(i, sovMap) ==
    /\ i \in 1..Len(fetching)
    /\ fetching[i].endpoint = "alliance" /\ fetching[i].sovMap = Null
    /\ fetching' = [fetching EXCEPT ![i].sovMap = Some(sovMap)]
    /\ UNCHANGED <<uiVars, overlayVars, stargates, cachedMapData, cachedData, now,
                   returned>>

\* alliance GET: getNames() resolved
NamesFetched(i, allianceNames) ==
    /\ i \in 1..Len(fetching)
    /\ fetching[i].endpoint = "alliance" /\ fetching[i].sovMap # Null
    /\ StoreAndReturn(i, "alliance", AllianceResult(fetching[i].sovMap[1], allianceNames))

\* an upstream request rejected (ESIAgent.request throws when fetch throws
\* or the response is not ok), or its value made the handler throw: the
\* catch block returns the error
FetchFailed(i) ==
    /\ i \in 1..Len(fetching)
    /\ returned' = Some(ErrorJson(fetching[i].endpoint))
    /\ fetching' = Without(fetching, i)
    /\ UNCHANGED <<uiVars, overlayVars, stargates, cachedMapData, cachedData, now>>

(***************************************************************************)
(* SpecCache: the two overlay endpoints under requests that arrive at any  *)
(* time, up to MaxFetching of them waiting for the upstream at once, over  *)
(* MaxHalfHours half hours.                                                *)
(***************************************************************************)
NextCache ==
    \/ Tick
    \/ \E endpoint \in Endpoints : CachedGET(endpoint)
    \/ \E i \in 1..Len(fetching) : \E fwSystems \in FwSystemLists :
          FactionSystemsFetched(i, fwSystems)
    \/ \E i \in 1..Len(fetching) : \E sovMap \in SovereigntyMaps :
          SovereigntyMapFetched(i, sovMap)
    \/ \E i \in 1..Len(fetching) : \E allianceNames \in NameLists :
          NamesFetched(i, allianceNames)
    \/ \E i \in 1..Len(fetching) : FetchFailed(i)

InitCache == Init /\ view = "map"

SpecCache == InitCache /\ [][NextCache]_vars

(***************************************************************************)
(* SpecSearch: the search box of the map view over data sets with more     *)
(* than 10, exactly 10 and fewer than 10 systems that match a query.       *)
(***************************************************************************)
\* the names of the search data sets, by position
SearchNames ==
    << <<"A", "a">>, <<"a", "B">>, <<"B", "a">>, <<"C">>, <<"a">>, <<"A">>, <<"b", "A">>,
       <<"a", "b">>, <<"A", "B">>, <<"c", "a">>, <<"a", "c">>, <<"B", "A", "c">> >>

SearchSystems(names) ==
    [i \in 1..Len(names) |-> Sys(i, names[i], 10 * (1 + (i % 2)), P2(i, 2 * i), P2(i, 2 * i))]

SearchRegions == << [_key |-> 10, name |-> <<"A", "b">>], [_key |-> 20, name |-> <<"B">>],
                    [_key |-> 30, name |-> <<"c", "A">>] >>

\* 11, 10 and 9 systems match the query "a"; all 12 match no query with "z"
SearchLayouts ==
    { [systems |-> SearchSystems(SearchNames), regions |-> SearchRegions],
      [systems |-> SearchSystems(SubSeq(SearchNames, 2, 12)), regions |-> SearchRegions],
      [systems |-> SearchSystems(SubSeq(SearchNames, 3, 12)), regions |-> SearchRegions] }

Queries ==
    { <<"a">>, <<"A">>, <<"b">>, <<"a", "B">>, <<"c">>, <<"z">>, <<" ", "a">>,
      <<" ">>, << >> }

InitSearch == Init /\ view = "map"

NextSearch ==
    \/ \E md \in SearchLayouts : LoadMap(md)
    \/ \E query \in Queries : handleSearchChange(query)
    \/ SearchTimeout
    \/ /\ showAutocomplete /\ filteredResults # << >>
       /\ handleSelectResult(filteredResults[1])

SpecSearch == InitSearch /\ [][NextSearch]_vars

(***************************************************************************)
(* SpecImages: the local view with its marker images.  Each image that the *)
(* drawing loop requests loads or fails at any time; the systemId prop     *)
(* changes and the surface is resized meanwhile.                           *)
(***************************************************************************)
InitImages == Init /\ view = "system"

NextImages ==
    \/ \E id \in { sd.system._key : sd \in SystemLayouts } :
          /\ Cardinality(inFlight) < MaxInFlight
          /\ loadSystemData(id)
    \/ \E id \in inFlight : LoadSystem(SystemDetailGET(SystemRecords, id).body)
    \/ \E typeID \in DOMAIN imageCache : ImageLoaded(typeID)
    \/ \E typeID \in DOMAIN imageCache : ImageFailed(typeID)
    \/ ImageFrame
    \/ \E dims \in Sizes : Resize(dims)

SpecImages == InitImages /\ [][NextImages]_vars

(***************************************************************************)
(* Properties of the camera.                                               *)
(***************************************************************************)
ZoomInRange(zoom) == RLe(<<1, 10>>, zoom) /\ RLe(zoom, R(10))

\* C1: in both views, after any sequence of wheel events, wheel and drag
\* frames, drag moves, search selections and camera (re)initializations, the
\* zoom of the camera ref and of the camera state is within [0.1, 10],
\* whatever delta a frame accumulated (also -1 or less).
C1_ZoomWithinLimits == ZoomInRange(cameraRef.zoom) /\ ZoomInRange(camera.zoom)

\* the map view after a frame whose accumulated delta took the zoom from 2
\* to the lower limit: the product 2 * (1 + delta) was 0 or negative
C1_LowerLimitReached ==
    /\ view = "map" /\ wheelFrames = 1
    /\ cameraRef.zoom = <<1, 10>> /\ camera.zoom = <<1, 10>>

\* (cursor - surfaceCenter - offset) / zoom on both axes
UnderCursor(cam, dims, m) ==
    [x |-> RDiv(RSub(RSub(R(m.x), Half(dims.width)), cam.x), cam.zoom),
     y |-> RDiv(RSub(RSub(R(m.y), Half(dims.height)), cam.y), cam.zoom)]

ProjectedPoints ==
    IF view = "map"
    THEN (IF mapData = Null THEN {}
          ELSE { SystemCanvas(mapData[1], dimensions, mapData[1].systems[i]) :
                   i \in 1..Len(mapData[1].systems) })
    ELSE (IF systemData = Null THEN {}
          ELSE { [x |-> FromGrid(o.x), y |-> FromGrid(o.y)] :
                   o \in SeqToSet(CollectMarkers(systemData[1], dimensions)) })

\* C3: for the camera ref and the camera state and every projected entity
\* point p, the inverse transform of hit-testing applied to the forward
\* transform of drawing returns p.
C3_RoundTrip ==
    \A cam \in {cameraRef, camera} : \A p \in ProjectedPoints :
        InverseTransform(cam, dimensions, ForwardTransform(cam, dimensions, p)) = p

\* entities are loaded, the camera ref is zoomed out to the limit and panned,
\* and the camera state holds the zoom of a search selection
C3_CamerasApart ==
    /\ view = "map" /\ Cardinality(ProjectedPoints) = 4
    /\ cameraRef.zoom = <<1, 10>> /\ cameraRef.x # R(0)
    /\ camera.zoom = R(8)

ZoomSamples == { <<1, 10>>, <<1, 2>>, R(1), R(2), R(5), R(10) }

\* hit radius at the larger of two distinct zooms < hit radius at the smaller
Shrinks(radius(_), z1, z2) ==
    /\ RLt(z1, z2) => RLt(radius(z2), radius(z1))
    /\ RLt(z2, z1) => RLt(radius(z1), radius(z2))

\* C7: for the loaded layout and any two zooms z1 < z2 in [0.1, 10], the hit
\* radius in pre-camera units at z2 is strictly smaller than at z1: for the
\* map hover and click queries and for the local hover and click queries of
\* every marker.
C7_HitRadiusShrinks ==
    \A z \in ZoomSamples \cup {camera.zoom} :
        /\ Shrinks(MapHoverRadius, cameraRef.zoom, z)
        /\ Shrinks(MapClickRadius, cameraRef.zoom, z)
        /\ \A k \in DOMAIN adjustedPositions :
              LET hover(zoom) == DetectionRadius(adjustedPositions[k].radius, zoom, HoverBuffer)
                  click(zoom) == DetectionRadius(adjustedPositions[k].radius, zoom, ClickBuffer)
              IN  Shrinks(hover, cameraRef.zoom, z) /\ Shrinks(click, cameraRef.zoom, z)

\* the local view with its markers cached, zoomed in by one frame
C7_LocalZoomedIn ==
    /\ view = "system" /\ Cardinality(DOMAIN adjustedPositions) >= 3
    /\ wheelFrames = 1 /\ cameraRef.zoom = R(5)

(***************************************************************************)
(* Properties of the map click.                                            *)
(***************************************************************************)
\* the systems whose projected position is within the click radius of m
ClickCandidates(md, dims, cam, m) ==
    { i \in 1..Len(md.systems) :
        Within(InverseTransform(cam, dims, RPoint(m)),
               SystemCanvas(md, dims, md.systems[i]), MapClickRadius(cam.zoom)) }

\* C10: in the map view a mouse-up that is a click invokes navigation at most
\* once; when the click is within the click radius of an entity and nearer to
\* it than to every other entity, navigation is invoked with that entity's
\* identity; when no entity is within the radius, no navigation is invoked.
C10_ClickNavigatesToEntity ==
    [][\A m \in MousePoints(dimensions) :
          (view = "map" /\ handleMouseUp(m) /\ IsClick(mouseDownPos, m)) =>
             LET md == mapData[1]
                 world == InverseTransform(cameraRef, dimensions, RPoint(m))
                 at(i) == SystemCanvas(md, dimensions, md.systems[i])
                 within == ClickCandidates(md, dimensions, cameraRef, m)
             IN  /\ Len(nav') <= 1
                 /\ within = {} => nav' = << >>
                 /\ \A i \in within :
                       (\A j \in within \ {i} : Closer(world, at(i), at(j)))
                           => nav' = << md.systems[i]._key >>]_vars

(***************************************************************************)
(* Properties of the label anchors.                                        *)
(***************************************************************************)
\* the render effect draws
Rendered == view = "map" /\ mapData # Null /\ cameraInitialized

AllianceMode == Rendered /\ colorMode = "alliance" /\ allianceData # Null

\* the member lists the alliance branch builds in a render under camera cam
GroupsAt(cam) ==
    AllianceSystems(mapData[1], dimensions, cam, allianceData[1], 1, << >>)

\* the clusters of that render: for each alliance, sets of member indices
PartitionAt(cam) ==
    LET groups == GroupsAt(cam)
    IN  [g \in 1..Len(groups) |->
            LET clusters == Clusters(groups[g].systems, 1, {}, << >>)
            IN  { SeqToSet(clusters[c]) : c \in 1..Len(clusters) }]

\* the current render
Groups == GroupsAt(camera)
Partition == PartitionAt(camera)

\* the members joined to a member of S by one link below the threshold
Linked(systems, S) ==
    S \cup { j \in 1..Len(systems) :
               \E i \in S : Within(systems[i], systems[j], R(proximityThreshold)) }

\* the connected component of S: the links followed n times
RECURSIVE Component(_, _, _)
Component(systems, S, n) ==
    IF n = 0 THEN S ELSE Component(systems, Linked(systems, S), n - 1)

RECURSIVE SumOver(_, _, _)
SumOver(f, S, axis) ==
    IF S = {} THEN R(0)
    ELSE LET i == CHOOSE i \in S : TRUE
         IN  RAdd(f[i][axis], SumOver(f, S \ {i}, axis))

\* C9: in region mode the render produces exactly one anchor for each region
\* id that has a system, at the arithmetic mean of the projected positions of
\* the systems of that region.
C9_RegionAnchorsAtMean ==
    (Rendered /\ colorMode = "region") =>
        LET md == mapData[1]
            anchors == Anchors(CenterMap(md, dimensions, camera, colorMode,
                                         sovereigntyData, allianceData))
            at == [i \in 1..Len(md.systems) |->
                     LET p == SystemCanvas(md, dimensions, md.systems[i])
                     IN  << p.x, p.y >>]
            members(id) == { i \in 1..Len(md.systems) : md.systems[i].regionID = id }
            ids == { md.systems[i].regionID : i \in 1..Len(md.systems) }
        IN  /\ { anchors[a].id : a \in 1..Len(anchors) } = ids
            /\ Len(anchors) = Cardinality(ids)
            /\ \A a \in 1..Len(anchors) :
                  LET S == members(anchors[a].id)
                  IN  /\ anchors[a].x = RDiv(SumOver(at, S, 1), R(Cardinality(S)))
                      /\ anchors[a].y = RDiv(SumOver(at, S, 2), R(Cardinality(S)))

\* the three entities (0,0), (1,0), (1,1) of categories A, A, B on the
\* 800 x 600 surface: two anchors, the A anchor between the two A entities
C9_TwoRegionsAnchored ==
    /\ Rendered /\ colorMode = "region" /\ mapData[1].systems = ExampleSystems
    /\ dimensions.width = 800
    /\ LET anchors == Anchors(CenterMap(mapData[1], dimensions, camera, colorMode,
                                        sovereigntyData, allianceData))
       IN  /\ Len(anchors) = 2
           /\ anchors[1].text = "A"
           /\ anchors[1].x = R(300) /\ anchors[1].y = R(550)

(***************************************************************************)
(* Properties of the map data endpoint.                                    *)
(***************************************************************************)
\* the stored connections that join a and b, in either direction
Joining(connections, a, b) ==
    { k \in 1..Len(connections) :
        {connections[k].from, connections[k].to} = {a, b} }

\* C4: the stored connection list holds at most one entry for each unordered
\* pair of systems, and exactly one for each pair of allowed systems that a
\* gate joins in either direction, in whichever order the gates are read.
C4_OneConnectionPerPair ==
    cachedMapData # Null =>
        LET connections == cachedMapData[1].stargateConnections
            joined(a, b) ==
                \E k \in 1..Len(stargates) :
                    {stargates[k].solarSystemID, stargates[k].destination} = {a, b}
        IN  \A a \in GateSystems, b \in GateSystems :
                Cardinality(Joining(connections, a, b)) =
                    IF a \in AllowedSystemIds /\ b \in AllowedSystemIds /\ joined(a, b)
                    THEN 1 ELSE 0

\* gates 12 -> 1 and 1 -> 12 were read, in this order, and one connection
\* is stored
C4_BothDirectionsRead ==
    /\ stargates = << Gate(12, 1), Gate(1, 12) >>
    /\ cachedMapData = Some([stargateConnections |-> << [from |-> 12, to |-> 1] >>])

(***************************************************************************)
(* Properties of the relaxation.                                           *)
(***************************************************************************)
\* distance < minSeparation
TooClose(a, b) ==
    /\ Abs(b.x - a.x) < minSeparation * Unit
    /\ Abs(b.y - a.y) < minSeparation * Unit
    /\ GridDistSq(a, b) < minSeparation * Unit * minSeparation * Unit

\* C8: after the relaxation pass of a local render, every two markers that
\* were closer than minSeparation before the pass are at least minSeparation
\* apart, or all maxIterations iterations were run.
C8_SeparatedOrBudgetSpent ==
    (view = "system" /\ systemData # Null /\ cameraInitialized) =>
        LET before == CollectMarkers(systemData[1], dimensions)
            pass == Relax(before)
            after(k) == adjustedPositions[before[k].dataRef]
        IN  \A i \in 1..Len(before), j \in 1..Len(before) :
                (i < j /\ TooClose(before[i], before[j])) =>
                    \/ ~TooClose(after(i), after(j))
                    \/ pass.iterations = maxIterations

(***************************************************************************)
(* Properties of the hit queries.                                          *)
(***************************************************************************)
\* the result is none when there is no candidate, and otherwise a candidate
\* that no other candidate is strictly closer than
NearestOf(candidates, closer(_, _), result) ==
    IF candidates = {} THEN result = Null
    ELSE /\ result # Null
         /\ result[1] \in candidates
         /\ \A j \in candidates : ~closer(j, result[1])

\* C11: with the canvas shown, for every cursor position the hover query and
\* the click query of the view return an entity at minimum distance from the
\* cursor among the entities within the query's hit radius, and none when no
\* entity is within the radius.
C11_QueriesReturnNearest ==
    CanvasShown =>
        \A m \in MousePoints(dimensions) :
            LET world == InverseTransform(cameraRef, dimensions, RPoint(m))
            IN  IF view = "map"
                THEN LET md == mapData[1]
                         at(i) == SystemCanvas(md, dimensions, md.systems[i])
                         closer(i, j) == Closer(world, at(i), at(j))
                         within(radius) ==
                             { i \in 1..Len(md.systems) : Within(world, at(i), radius) }
                         index(key) ==
                             CHOOSE i \in 1..Len(md.systems) : md.systems[i]._key = key
                         hover == MapHoverQuery(md, dimensions, cameraRef, m)
                         click == MapClickQuery(md, dimensions, cameraRef, m)
                     IN  /\ NearestOf(within(MapHoverRadius(cameraRef.zoom)), closer,
                                      IF hover = Null THEN Null
                                      ELSE Some(index(hover[1]._key)))
                         /\ NearestOf(within(MapClickRadius(cameraRef.zoom)), closer,
                                      IF click = Null THEN Null
                                      ELSE Some(index(click[1])))
                ELSE LET at(k) == GridPoint(adjustedPositions[k])
                         closer(i, j) == Closer(world, at(i), at(j))
                         within(buffer) ==
                             { k \in DOMAIN adjustedPositions :
                                 Within(world, at(k),
                                        DetectionRadius(adjustedPositions[k].radius,
                                                        cameraRef.zoom, buffer)) }
                         query(buffer) ==
                             findObjectAtPosition(systemData[1], adjustedPositions,
                                                  dimensions, cameraRef, m, buffer)
                     IN  \A buffer \in {HoverBuffer, ClickBuffer} :
                             NearestOf(within(buffer), closer,
                                       IF query(buffer) = Null THEN Null
                                       ELSE Some(query(buffer)))

(***************************************************************************)
(* Properties of the camera owner and of the frame callbacks.              *)
(***************************************************************************)
\* the animation-frame callbacks requested and not yet run: the drag
\* callback and the wheel callbacks
PendingCallbacks == (IF renderRequested THEN 1 ELSE 0) + PendingWheelFrames

\* C12: whenever no drag or wheel animation-frame callback is pending, the
\* camera ref (read by hit-testing and by the next wheel or drag step) equals
\* the camera state (used for drawing).
C12_OneAuthoritativeCamera == PendingCallbacks = 0 => cameraRef = camera

\* C13: the callbacks pending at a display refresh all run in that refresh
\* tick and each of them applies the camera state once (setCamera), so at
\* most one callback, drag and wheel counted together, is pending at a time.
C13_OneApplicationPerTick == PendingCallbacks <= 1

(***************************************************************************)
(* Properties of the drag.                                                 *)
(***************************************************************************)
\* C14: a mouse-down captures the drag anchor (cursor position - camera
\* offset), no other step changes the anchor, and every pointer move while
\* dragging sets the camera offset to (cursor position - drag anchor) on both
\* axes.
C14_DragFollowsCursor ==
    [][/\ \A m \in MousePoints(dimensions) :
            /\ handleMouseDown(m) =>
                  /\ dragStart'.x = RSub(R(m.x), cameraRef.x)
                  /\ dragStart'.y = RSub(R(m.y), cameraRef.y)
            /\ (isDragging /\ handleMouseMove(m)) =>
                  /\ cameraRef'.x = RSub(R(m.x), dragStart.x)
                  /\ cameraRef'.y = RSub(R(m.y), dragStart.y)
                  /\ cameraRef'.zoom = cameraRef.zoom
       /\ (\A m \in MousePoints(dimensions) : ~handleMouseDown(m))
              => dragStart' = dragStart]_vars

\* a drag that started with a camera offset other than 0 has moved the
\* camera ref to another cursor position
C14_DraggedAway ==
    /\ isDragging /\ renderRequested
    /\ dragStart.x # R(mouseDownPos.x)
    /\ \E m \in MousePoints(dimensions) \ {mouseDownPos} :
          /\ cameraRef.x = RSub(R(m.x), dragStart.x)
          /\ cameraRef.y = RSub(R(m.y), dragStart.y)
          /\ cameraRef # camera

(***************************************************************************)
(* Properties of the camera placement and of loading.                      *)
(***************************************************************************)
RSetMin(S) == CHOOSE m \in S : \A o \in S : RLe(m, o)
RSetMax(S) == CHOOSE m \in S : \A o \in S : RLe(o, m)

\* the positions, in data coordinates, of the entity set of a view: the
\* systems of the map; the star, planets, moons, stargates and stations of
\* the local view that have a position
EntityPositions(v, md, sd) ==
    IF v = "map"
    THEN (IF md = Null THEN {}
          ELSE { [x |-> SystemX(q), z |-> SystemY(q)] : q \in SeqToSet(md[1].systems) })
    ELSE (IF sd = Null THEN {}
          ELSE LET positioned(list) ==
                       { b.position[1] : b \in { c \in SeqToSet(list) : c.position # Null } }
               IN  (IF sd[1].star = Null THEN {} ELSE { StarPosition(sd[1].star[1]) })
                   \cup positioned(sd[1].planets) \cup positioned(sd[1].moons)
                   \cup positioned(sd[1].stargates) \cup positioned(sd[1].stations))

\* the pre-camera points at which the projector of the view puts them
EntityPoints(v, md, sd, dims) ==
    { IF v = "map"
      THEN [x |-> toCanvasX(coordinateData(md[1], dims), q.x),
            y |-> toCanvasY(coordinateData(md[1], dims), dims, q.z)]
      ELSE toCanvasCoords(localCoordinateData(sd[1], dims), dims, q) :
      q \in EntityPositions(v, md, sd) }

\* the midpoint of the bounding box of a set of points
BoxMidpoint(P) ==
    [x |-> RDiv(RAdd(RSetMin({ q.x : q \in P }), RSetMax({ q.x : q \in P })), R(2)),
     y |-> RDiv(RAdd(RSetMin({ q.y : q \in P }), RSetMax({ q.y : q \in P })), R(2))]

\* the camera draws the pre-camera point p at the centre of the surface
CentredOn(cam, dims, p) ==
    ForwardTransform(cam, dims, p) = [x |-> Half(dims.width), y |-> Half(dims.height)]

IsDefaultZoom(v, cam) == cam.zoom = IF v = "map" THEN R(2) ELSE R(1)

\* a step in which the data or the dimensions of the view changed
DataOrSizeChanged ==
    mapData' # mapData \/ systemData' # systemData \/ dimensions' # dimensions

C17_DegenerateStillInitializes ==
    [][(/\ DataOrSizeChanged
        /\ (IF view = "map" THEN mapData' # Null ELSE systemData' # Null)
        /\ Cardinality(EntityPositions(view, mapData', systemData')) <= 1) =>
          LET P == EntityPoints(view, mapData', systemData', dimensions')
          IN  /\ cameraInitialized'
              /\ cameraRef' = camera'
              /\ IsDefaultZoom(view, camera')
              /\ P # {} => CentredOn(camera', dimensions', BoxMidpoint(P))]_vars

\* C18: once every request of the local view is answered and the systemId
\* prop is an identity the dataset does not hold (the endpoint answers 404),
\* the view shows the error box: not the loading screen, not the canvas.
C18_UnknownIdentityShowsError ==
    (/\ view = "system" /\ inFlight = {}
     /\ SystemDetailGET(SystemRecords, systemId).status = 404) =>
        Screen(view, loading, cameraInitialized, error, systemData) = "error"

\* C19: once every request of the local view is answered and the systemId
\* prop is an identity of the dataset, the view holds the data of that
\* identity, in whichever order the responses arrived.
C19_SupersededResponseIgnored ==
    (/\ view = "system" /\ inFlight = {}
     /\ SystemDetailGET(SystemRecords, systemId).status = 200) =>
        /\ systemData # Null
        /\ systemData[1].system._key = systemId


(***************************************************************************)
(* Properties of the overlay loads.                                        *)
(***************************************************************************)
\* C20: a failed load of the faction overlay or of the alliance overlay
\* leaves the error state as it was and stores the empty mapping; an overlay
\* once stored, the empty one included, is never loaded again; and while the
\* map is drawn in the mode of an overlay that holds the empty mapping,
\* every system marker has the neutral colour.
C20_FailedOverlayIsEmpty ==
    /\ [][/\ LoadSovereigntyFailed =>
                (error' = error /\ sovereigntyData' = Some(<< >>))
          /\ LoadAllianceSovereigntyFailed =>
                (error' = error /\ allianceData' = Some(<< >>))
          /\ sovereigntyData # Null => sovereigntyData' = sovereigntyData
          /\ allianceData # Null => allianceData' = allianceData]_vars
    /\ [](sovereigntyData = Some(<< >>) =>
             /\ ~ENABLED LoadSovereigntyFailed
             /\ ~ENABLED (\E data \in SovereigntyResponses : LoadSovereignty(data))
             /\ ((Rendered /\ colorMode = "faction") =>
                    \A q \in SeqToSet(mapData[1].systems) :
                       MarkerColor(q, colorMode, sovereigntyData, allianceData) =
                          [h |-> R(0), s |-> R(0), l |-> R(30)]))
    /\ [](allianceData = Some(<< >>) =>
             /\ ~ENABLED LoadAllianceSovereigntyFailed
             /\ ~ENABLED (\E data \in AllianceResponses : LoadAllianceSovereignty(data))
             /\ ((Rendered /\ colorMode = "alliance") =>
                    \A q \in SeqToSet(mapData[1].systems) :
                       MarkerColor(q, colorMode, sovereigntyData, allianceData) =
                          [h |-> R(0), s |-> R(0), l |-> R(30)]))

\* the map drawn in alliance mode after both overlay loads failed
C20_DrawnAfterFailedLoads ==
    /\ Rendered /\ CanvasShown /\ colorMode = "alliance"
    /\ allianceData = Some(<< >>) /\ sovereigntyData = Some(<< >>)
    /\ error = Null

(***************************************************************************)
(* Properties of the overlay modes.                                        *)
(***************************************************************************)
\* the indices of the systems to which an overlay state resolves an id
Resolved(md, data, none) ==
    IF data = Null THEN {}
    ELSE { i \in 1..Len(md.systems) :
             /\ md.systems[i]._key \in DOMAIN data[1]
             /\ data[1][md.systems[i]._key] # none }

\* the number of systems accumulated into the anchors of a render
AnchoredCount(centerMap) ==
    SumSeq([i \in 1..Len(centerMap) |-> centerMap[i].count], Len(centerMap))

\* C21: in every render of the map in faction or alliance mode: while the
\* data of that overlay is absent, every marker has the neutral colour and
\* there is no anchor; once it is present, every system without a resolved
\* id has the neutral colour and the anchors count exactly the systems with
\* a resolved id.
C21_AbsentOverlayUnclustered ==
    (Rendered /\ colorMode \in {"faction", "alliance"}) =>
        LET md == mapData[1]
            data == IF colorMode = "faction" THEN sovereigntyData ELSE allianceData
            centerMap == CenterMap(md, dimensions, camera, colorMode,
                                   sovereigntyData, allianceData)
            resolved == IF colorMode = "faction" THEN Resolved(md, data, 0)
                        ELSE Resolved(md, data, Null)
        IN  /\ \A i \in (1..Len(md.systems)) \ resolved :
                  MarkerColor(md.systems[i], colorMode, sovereigntyData, allianceData)
                     = [h |-> R(0), s |-> R(0), l |-> R(30)]
            /\ AnchoredCount(centerMap) = Cardinality(resolved)
            /\ data = Null => Anchors(centerMap) = << >>

(***************************************************************************)
(* Properties of the marker images.                                        *)
(***************************************************************************)
ImageIDs == UNION { DrawnTypeIDs(sd) : sd \in SystemRecords }

\* C22: the image cache has an entry only for an image that has loaded, and
\* the drawing loop takes the fallback shape for every image that has not
\* loaded (its load failed or has not completed).
C22_CacheHoldsLoadedImages ==
    view = "system" =>
        \A typeID \in ImageIDs :
            /\ typeID \in DOMAIN imageCache => imageCache[typeID] = "loaded"
            /\ (typeID \notin DOMAIN imageCache \/ imageCache[typeID] # "loaded") =>
                  MarkerShape(imageCache, typeID) = "fallback"

\* C23: at most one image frame is pending, one is pending whenever a
\* completed load has been counted and not yet signalled, and every image
\* frame changes imageLoadTrigger, the dependency that makes the render
\* effect draw again: once for all the loads counted since the last frame.
C23_OneRedrawPerTick ==
    /\ [](imageLoadRafId <= 1 /\ (pendingImageUpdates > 0 => imageLoadRafId = 1))
    /\ [][(imageLoadRafId = 1 /\ imageLoadRafId' = 0) =>
             imageLoadTrigger' # imageLoadTrigger]_vars

(***************************************************************************)
(* Properties of the adjusted-position cache.                              *)
(***************************************************************************)
\* the markers a render pass of the local view collects: the star and the
\* planets, stargates and stations that have a position
CollectedRefs(sd) ==
    LET refs(list, type) ==
            { <<type, list[i]._key>> : i \in { j \in 1..Len(list) : list[j].position # Null } }
    IN  (IF sd.star = Null THEN {} ELSE { <<"star", sd.star[1]._key>> })
        \cup refs(sd.planets, "planet") \cup refs(sd.stargates, "stargate")
        \cup refs(sd.stations, "station")

\* C24: while the local view shows its canvas, the adjusted-position cache
\* has exactly the markers collected from the current data as its entries,
\* each with the position and the radius that the relaxation of the current
\* pass ends with, and for every cursor position the hover query and the
\* click query return none or a marker of the cache that lies within its
\* detection radius of the cursor, measured to the cached position.
C24_CacheRebuiltEveryPass ==
    (view = "system" /\ CanvasShown) =>
        LET sd == systemData[1]
            objs == Relax(CollectMarkers(sd, dimensions)).objs
        IN  /\ DOMAIN adjustedPositions = CollectedRefs(sd)
            /\ Len(objs) = Cardinality(CollectedRefs(sd))
            /\ \A k \in 1..Len(objs) :
                  adjustedPositions[objs[k].dataRef] =
                     [x |-> objs[k].x, y |-> objs[k].y, radius |-> objs[k].radius]
            /\ \A m \in MousePoints(dimensions), buffer \in {HoverBuffer, ClickBuffer} :
                  LET hit == findObjectAtPosition(sd, adjustedPositions, dimensions,
                                                  cameraRef, m, buffer)
                  IN  hit # Null =>
                         /\ hit \in DOMAIN adjustedPositions
                         /\ Within(InverseTransform(cameraRef, dimensions, RPoint(m)),
                                   GridPoint(adjustedPositions[hit]),
                                   DetectionRadius(adjustedPositions[hit].radius,
                                                   cameraRef.zoom, buffer))

\* the local view shows system 2 after a pass that drew system 1 (whose
\* planet image was requested), without the stargate of system 1, and a
\* query hits a marker
C24_SecondSystemQueried ==
    /\ view = "system" /\ CanvasShown /\ systemData[1].system._key = 2
    /\ <<"planet", 11>> \in DOMAIN adjustedPositions
    /\ <<"stargate", 21>> \notin DOMAIN adjustedPositions
    /\ 13 \in DOMAIN imageCache
    /\ \E m \in MousePoints(dimensions) :
          findObjectAtPosition(systemData[1], adjustedPositions, dimensions,
                               cameraRef, m, HoverBuffer) # Null

(***************************************************************************)
(* Properties of the search.                                               *)
(***************************************************************************)
\* the entries of a list whose name contains the query, case-insensitively
Matching(list, query) ==
    { i \in 1..Len(list) : includes(toLowerCase(list[i].name), toLowerCase(query)) }

\* C25: the results that a search timeout stores are at most 10; no region
\* result comes before a system result; there is a region result only if
\* fewer than 10 systems of the data match the query; and every result is a
\* system or a region of the data whose name contains the query, case being
\* ignored.
C25_SearchResults ==
    [][SearchTimeout =>
         LET md == searchDebounce[1].mapData
             query == searchDebounce[1].query
             results == filteredResults'
             regionResults == { i \in 1..Len(results) : results[i].type = "region" }
         IN  /\ Len(results) <= 10
             /\ \A i \in regionResults : \A j \in 1..Len(results) :
                   results[j].type = "system" => j < i
             /\ regionResults # {} => Cardinality(Matching(md.systems, query)) < 10
             /\ \A i \in 1..Len(results) :
                   LET list == IF results[i].type = "system" THEN md.systems
                               ELSE md.regions
                   IN  \E k \in Matching(list, query) :
                          /\ list[k]._key = results[i].id
                          /\ list[k].name = results[i].name]_vars

\* the list holds 10 systems of the 11 that match
C25_ListCapped ==
    /\ Len(filteredResults) = 10
    /\ \A i \in 1..10 : filteredResults[i].type = "system"
    /\ Len(mapData[1].systems) = 12

(***************************************************************************)
(* The map data request fails.                                             *)
(***************************************************************************)
\* C26: once the map data request has failed and loadMap has finished (an
\* error is stored and loading is false), the map view shows the error
\* message and not the loading screen
C26_FailedMapShowsError ==
    (view = "map" /\ error # Null /\ ~loading)
        => Screen(view, loading, cameraInitialized, error, systemData) = "error"

(***************************************************************************)
(* Drag and wheel zoom interleaved.                                        *)
(***************************************************************************)
\* C27: a pointer move of a drag changes the offset of the camera by the
\* displacement of the cursor since the previous pointer event of the drag
\* (the mouse down or the previous move) and leaves the zoom unchanged,
\* whatever ran between the two pointer events.
C27_DragFollowsCursor ==
    [][\A m \in MousePoints(dimensions) :
          (isDragging /\ handleMouseMove(m)) =>
              /\ cameraRef'.x = RAdd(cameraRef.x, R(m.x - lastPointer.x))
              /\ cameraRef'.y = RAdd(cameraRef.y, R(m.y - lastPointer.y))
              /\ cameraRef'.zoom = cameraRef.zoom]_vars

(***************************************************************************)
(* Wheel deltas and frames.                                                *)
(***************************************************************************)
\* the wheel closures that are alive: those replaced with a frame pending,
\* oldest first, and the one listening
WheelClosures == staleWheel \o (IF wheel = Null THEN << >> ELSE <<wheel[1]>>)

\* the deltas of the wheel events received and not yet applied, in tenths
UnappliedDelta ==
    SumSeq([i \in 1..Len(WheelClosures) |-> WheelClosures[i].pendingZoomDelta],
           Len(WheelClosures))

\* C28: every wheel delta is applied in exactly one frame.  A closure holds a
\* delta only while its frame is pending; a step that is not a frame either
\* leaves the unapplied deltas alone or is a wheel event that adds its delta
\* to them with a frame of its closure pending; a frame takes the whole
\* delta of its closure out of the unapplied deltas (the closure is left
\* with delta 0 and no frame pending, the other closures keep theirs),
\* multiplies the zoom by 1 + that delta, clamped, and replaces offset and
\* zoom of the camera ref and of the camera state in the same step.
C28_WheelDeltaAppliedOnce ==
    /\ [](\A i \in 1..Len(WheelClosures) :
             WheelClosures[i].pendingZoomDelta # 0 => WheelClosures[i].wheelRafId)
    /\ [][IF wheelFrames' # wheelFrames
          THEN LET applied == UnappliedDelta - UnappliedDelta'
                   closure == Head(WheelClosures)
               IN  /\ applied = closure.pendingZoomDelta
                   /\ PendingWheelFrames' = PendingWheelFrames - 1
                   /\ IF staleWheel = << >>
                      THEN wheel'[1].pendingZoomDelta = 0 /\ ~wheel'[1].wheelRafId
                      ELSE wheel' = wheel /\ staleWheel' = Tail(staleWheel)
                   /\ cameraRef'.zoom = ClampZoom(cameraRef.zoom, applied)
                   /\ camera' = cameraRef'
          ELSE \/ UnappliedDelta' = UnappliedDelta
               \/ /\ UnappliedDelta' - UnappliedDelta \in {-1, 1}
                  /\ wheel'[1].pendingZoomDelta - wheel[1].pendingZoomDelta
                        = UnappliedDelta' - UnappliedDelta
                  /\ wheel'[1].wheelRafId
                  /\ staleWheel' = staleWheel]_vars

\* a frame has applied a burst of two wheel events of the closure that a
\* resize replaced, while the closure listening holds a delta of its own and
\* its frame is pending
C28_StaleBurstApplied ==
    /\ wheelFrames = 1 /\ resizes = 1 /\ staleWheel = << >>
    /\ wheel # Null /\ wheel[1].wheelRafId /\ wheel[1].pendingZoomDelta # 0
    /\ cameraRef.zoom \in { ClampZoom(zoom, delta) : zoom \in {R(1), R(2)}, delta \in {-2, 2} }

(***************************************************************************)
(* Drag frames.                                                            *)
(***************************************************************************)
\* the camera ref holds the offset that the latest pointer event of the drag
\* gave it
RefAtLatestMove ==
    /\ cameraRef.x = RSub(R(lastPointer.x), dragStart.x)
    /\ cameraRef.y = RSub(R(lastPointer.y), dragStart.y)

\* C29 as stated: a drag move leaves a frame pending (one flag, so one
\* callback however many moves there were), and the frame clears the flag
\* and updates the camera state with the offset of the latest move.
C29_FrameCarriesLatestMove ==
    /\ [][\A m \in MousePoints(dimensions) :
             (isDragging /\ handleMouseMove(m)) => renderRequested']_vars
    /\ [][DragFrame =>
             /\ ~renderRequested'
             /\ camera'.x = RSub(R(lastPointer.x), dragStart.x)
             /\ camera'.y = RSub(R(lastPointer.y), dragStart.y)]_vars

\* C29, amended: a drag move leaves a frame pending and the camera ref at
\* the offset of that move; while the frame is pending only a wheel frame
\* or a re-initialization of the camera (resize, data arrival) moves the ref
\* away from that offset; the frame clears the flag and updates the camera
\* state with the value the ref has at the tick.
C29_FrameCarriesRef ==
    /\ [][\A m \in MousePoints(dimensions) :
             (isDragging /\ handleMouseMove(m)) =>
                 (renderRequested' /\ RefAtLatestMove')]_vars
    /\ [][(renderRequested /\ RefAtLatestMove /\ ~RefAtLatestMove') =>
             \/ wheelFrames' # wheelFrames
             \/ resizes' # resizes
             \/ mapData' # mapData
             \/ systemData' # systemData]_vars
    /\ [][DragFrame => (~renderRequested' /\ camera' = cameraRef)]_vars

\* the frame of a drag has run after the latest move, which took the cursor
\* away from the mouse-down position, and the camera state holds the offset
\* of that move
C29_FrameRanAfterMoves ==
    /\ isDragging /\ ~renderRequested
    /\ lastPointer # mouseDownPos
    /\ RefAtLatestMove /\ camera = cameraRef
    /\ cameraRef.x # RSub(R(mouseDownPos.x), dragStart.x)

(***************************************************************************)
(* Ties of the hit queries.                                                *)
(***************************************************************************)
\* the indices of the systems at the minimum distance from the cursor m,
\* among those within the hover radius
MapTied(m) ==
    LET md == mapData[1]
        world == InverseTransform(cameraRef, dimensions, RPoint(m))
        at(i) == SystemCanvas(md, dimensions, md.systems[i])
        inside == { i \in 1..Len(md.systems) :
                      Within(world, at(i), MapHoverRadius(cameraRef.zoom)) }
    IN  { i \in inside : \A j \in inside : ~Closer(world, at(j), at(i)) }

\* the positions in the scan order of the cached markers at the minimum
\* distance from the cursor m, among those within their detection radius
LocalTied(m, buffer) ==
    LET order == QueryOrder(systemData[1])
        world == InverseTransform(cameraRef, dimensions, RPoint(m))
        at(i) == GridPoint(adjustedPositions[order[i]])
        inside == { i \in 1..Len(order) :
                      /\ order[i] \in DOMAIN adjustedPositions
                      /\ Within(world, at(i),
                                DetectionRadius(adjustedPositions[order[i]].radius,
                                                cameraRef.zoom, buffer)) }
    IN  { i \in inside : \A j \in inside : ~Closer(world, at(j), at(i)) }

\* C30: when several entities are at the minimum distance from the cursor
\* and within the hit radius, the hover query of the map view returns the
\* one that is first in the systems array, and the query of the local view,
\* for hover and for click, the one that is first in the order star,
\* planets, stargates, stations, each in array order.
C30_FirstOfTiedWins ==
    CanvasShown =>
        \A m \in MousePoints(dimensions) :
            IF view = "map"
            THEN Cardinality(MapTied(m)) > 1 =>
                     MapHoverQuery(mapData[1], dimensions, cameraRef, m)
                         = Some(mapData[1].systems[SetMin(MapTied(m))])
            ELSE \A buffer \in {HoverBuffer, ClickBuffer} :
                     Cardinality(LocalTied(m, buffer)) > 1 =>
                         findObjectAtPosition(systemData[1], adjustedPositions, dimensions,
                                              cameraRef, m, buffer)
                             = QueryOrder(systemData[1])[SetMin(LocalTied(m, buffer))]

\* the map view shows the hover box of the second system of the array, which
\* is at the distance of the fourth from the cursor, at two positions
C30_HoveredFirstOfPair ==
    /\ view = "map" /\ CanvasShown
    /\ hovered = Some(mapData[1].systems[2].name)
    /\ \E m \in MousePoints(dimensions) :
          /\ MapTied(m) = {2, 4}
          /\ mapData[1].systems[2].position2D # mapData[1].systems[4].position2D

(***************************************************************************)
(* Coordinates a system is projected from.                                 *)
(***************************************************************************)
\* C31: a system of the loaded map data that has a position2D is projected
\* from the x and the y of its position2D, also when one of them is 0; a
\* system without position2D is projected from its position.
C31_ProjectedFromPosition2D ==
    mapData # Null =>
        \A system \in SeqToSet(mapData[1].systems) :
            LET from == IF system.position2D # Null THEN system.position2D[1]
                        ELSE system.position[1]
            IN  /\ SystemX(system) = from.x
                /\ SystemY(system) = from.y

(***************************************************************************)
(* Clicks.                                                                 *)
(***************************************************************************)
\* C32: a step of the canvas handlers that invokes navigation or changes the
\* selected object is a mouse-up that comes after a mouse-down and is less
\* than 5 px from the position of the most recent mouse-down.
C32_OnlyClicksNavigateOrSelect ==
    [][(nav' # << >> \/ selected' # selected) =>
          /\ drags > 0
          /\ \E m \in ClickPoints(dimensions) :
                handleMouseUp(m) /\ IsClick(mouseDownPos, m)]_vars

(***************************************************************************)
(* What a pointer move changes.                                            *)
(***************************************************************************)
\* C33: a pointer move while not dragging invokes no navigation and leaves
\* the camera ref, the camera state and the dragging mode as they are (it
\* changes at most the hover indicator); a pointer move while dragging
\* leaves the hover indicator as it is.
C33_MoveFrame ==
    [][\A m \in ClickPoints(dimensions) :
          handleMouseMove(m) =>
              IF isDragging
              THEN hovered' = hovered
              ELSE /\ nav' = << >>
                   /\ cameraRef' = cameraRef /\ camera' = camera
                   /\ isDragging' = isDragging
                   /\ UNCHANGED <<selected, dragStart, mouseDownPos, renderRequested,
                                  wheel, staleWheel, adjustedPositions>>]_vars

\* the hover indicator that a move set before the drag is still shown after
\* a move of the drag has displaced the camera ref
C33_HoverKeptWhileDragging ==
    /\ isDragging /\ renderRequested
    /\ hovered # Null
    /\ cameraRef # camera

(***************************************************************************)
(* Iterations of the relaxation.                                           *)
(***************************************************************************)
\* the markers after n iterations, whether or not one of them pushed a pair
RECURSIVE AfterIterations(_, _)
AfterIterations(objs, n) ==
    IF n = 0 THEN objs ELSE Iteration(AfterIterations(objs, n - 1)).objs

\* the n-th iteration over objs pushes no pair
Quiet(objs, n) == ~Iteration(AfterIterations(objs, n - 1)).hadCollision

\* C34: the relaxation of the render pass of the data shown runs between 1
\* and 5 iterations; it runs as many as it takes to reach the first
\* iteration that pushes no pair, or 5 if there is none among the first 5;
\* the positions it leaves (those the cache holds) are the positions after
\* that many iterations; and an iteration that pushes no pair leaves every
\* marker where it was.
C34_RelaxationIterations ==
    (view = "system" /\ CanvasShown) =>
        LET objs == CollectMarkers(systemData[1], dimensions)
            relaxed == Relax(objs)
            quiet == { n \in 1..maxIterations : Quiet(objs, n) }
        IN  /\ relaxed.iterations \in 1..maxIterations
            /\ relaxed.iterations = IF quiet = {} THEN maxIterations ELSE SetMin(quiet)
            /\ relaxed.objs = AfterIterations(objs, relaxed.iterations)
            /\ adjustedPositions = AdjustedOf(relaxed.objs)
            /\ \A n \in quiet : AfterIterations(objs, n) = AfterIterations(objs, n - 1)

\* the view shows markers whose relaxation stopped after its third
\* iteration: two iterations pushed pairs, the third pushed none
C34_StoppedAfterThird ==
    /\ view = "system" /\ CanvasShown
    /\ LET objs == CollectMarkers(systemData[1], dimensions)
       IN  /\ Relax(objs).iterations = 3
           /\ ~Quiet(objs, 1) /\ ~Quiet(objs, 2) /\ Quiet(objs, 3)
           /\ adjustedPositions # AdjustedOf(objs)

(***************************************************************************)
(* Hit radius of the local view.                                           *)
(***************************************************************************)
\* the cached markers within (drawn radius + buffer) / zoom of the
\* pre-camera point of the cursor m
WithinScaledRadius(m, buffer) ==
    LET world == InverseTransform(cameraRef, dimensions, RPoint(m))
    IN  { ref \in DOMAIN adjustedPositions :
            Within(world, GridPoint(adjustedPositions[ref]),
                   RDiv(R(adjustedPositions[ref].radius + buffer), cameraRef.zoom)) }

\* C35: in the local view the hit query, with the buffer of 3 px for hover
\* and of 5 px for click, finds a marker exactly when some cached marker is
\* less than (drawn radius + buffer) / zoom from the pre-camera point of the
\* cursor, and the marker it finds is one of those.
C35_HitRadiusScaledByZoom ==
    (view = "system" /\ CanvasShown) =>
        \A m \in MousePoints(dimensions) : \A buffer \in {HoverBuffer, ClickBuffer} :
            LET found == findObjectAtPosition(systemData[1], adjustedPositions,
                                              dimensions, cameraRef, m, buffer)
            IN  IF WithinScaledRadius(m, buffer) = {} THEN found = Null
                ELSE found \in WithinScaledRadius(m, buffer)

(***************************************************************************)
(* The timer of the search.                                                *)
(***************************************************************************)
\* C36: searchDebounce holds at most one pending timeout.  A keystroke
\* leaves no timeout pending but its own: the timeout pending after it, if
\* any, holds the query of that keystroke, and the list is not computed by
\* the keystroke; a keystroke whose query is blank leaves no timeout pending
\* and empties the list in the same step.  A timeout is started by a
\* keystroke only, and a list that is not empty is stored only by the firing
\* of the pending timeout, computed from that timeout's query.
C36_SearchDebounced ==
    [][/\ \A query \in Queries :
             handleSearchChange(query) =>
                /\ searchDebounce' # Null =>
                      /\ searchDebounce'[1].query = query
                      /\ filteredResults' = filteredResults
                /\ trim(query) = << >> =>
                      /\ searchDebounce' = Null
                      /\ filteredResults' = << >>
                      /\ ~showAutocomplete'
       /\ (searchDebounce' # Null /\ searchDebounce' # searchDebounce) =>
             \E query \in Queries : handleSearchChange(query)
       /\ (filteredResults' # filteredResults /\ filteredResults' # << >>) =>
             /\ searchDebounce # Null
             /\ searchDebounce' = Null
             /\ filteredResults' =
                   Search(searchDebounce[1].mapData, searchDebounce[1].query)]_vars

\* the list of an earlier query is shown while the timeout of a later
\* keystroke, whose query gives another list, is pending
C36_LaterQueryPending ==
    /\ searchDebounce # Null
    /\ filteredResults # << >>
    /\ showAutocomplete
    /\ searchQuery = searchDebounce[1].query
    /\ filteredResults # Search(searchDebounce[1].mapData, searchDebounce[1].query)

(***************************************************************************)
(* The image cache of the local view.                                      *)
(***************************************************************************)
\* C37: no step removes an entry of the image cache; no step starts a
\* request for a typeID the cache holds already, which would put a new
\* image, whose request runs, in the place of the cached one; and the image
\* of an entry whose request has ended stays as it is.
C37_CacheAppendOnly ==
    [][\A typeID \in DOMAIN imageCache :
          /\ typeID \in DOMAIN imageCache'
          /\ imageCache'[typeID] = "loading" => imageCache[typeID] = "loading"
          /\ imageCache[typeID] # "loading" => imageCache'[typeID] = imageCache[typeID]]_vars

\* the markers were drawn again after an image arrived, for a system other
\* than the first, with one image loaded and another failed in the cache
C37_DrawnAgainFromCache ==
    /\ imageLoadTrigger > 0
    /\ CanvasShown
    /\ \E t \in DOMAIN imageCache : imageCache[t] = "loaded"
    /\ \E t \in DOMAIN imageCache : imageCache[t] = "failed"
    /\ DrawnTypeIDs(systemData[1]) \subseteq DOMAIN imageCache
    /\ DOMAIN imageCache \ DrawnTypeIDs(systemData[1]) # {}

(***************************************************************************)
(* The caches of the overlay endpoints.                                    *)
(***************************************************************************)
\* the cachedData of an endpoint is younger than minutes
YoungerThan(endpoint, minutes) ==
    /\ cachedData[endpoint] # Null
    /\ now - cachedData[endpoint][1].timestamp < minutes * 60 * 1000

\* C38: a GET of an overlay endpoint returns the cached data and starts no
\* upstream request exactly when the endpoint has a cached entry younger
\* than 30 minutes (faction) or 60 minutes (alliance), and starts an
\* upstream request otherwise; the cached entry of an endpoint changes only
\* in a step in which an upstream fetch of that endpoint ends with the
\* status 200, to the data returned and the time of that step; and a fetch
\* that fails returns the status 500 and leaves both cached entries, data
\* and timestamp, as they were.
C38_OverlayCache ==
    [][/\ \A endpoint \in Endpoints :
             /\ CachedGET(endpoint) =>
                   LET young == YoungerThan(endpoint,
                                            IF endpoint = "faction" THEN 30 ELSE 60)
                   IN  /\ young <=> (fetching' = fetching)
                       /\ young => returned' =
                                      Some(Json(endpoint, cachedData[endpoint][1].data))
                       /\ ~young => (Len(fetching') = Len(fetching) + 1 /\ returned' = Null)
                       /\ cachedData' = cachedData
             /\ cachedData'[endpoint] # cachedData[endpoint] =>
                   /\ Len(fetching') = Len(fetching) - 1
                   /\ returned' # Null
                   /\ returned'[1].endpoint = endpoint /\ returned'[1].status = 200
                   /\ cachedData'[endpoint] =
                         Some([data |-> returned'[1].body[endpoint], timestamp |-> now])
       /\ \A i \in 1..Len(fetching) :
             FetchFailed(i) =>
                /\ returned'[1].status = 500 /\ returned'[1].error # ""
                /\ returned'[1].endpoint = fetching[i].endpoint
                /\ cachedData' = cachedData]_vars

\* a refresh of the faction entry, 30 minutes old, has failed and the entry
\* is still there, while the alliance entry, replaced after the start, is
\* between 30 and 60 minutes old
C38_FailedRefreshKeepsEntry ==
    /\ returned = Some(ErrorJson("faction"))
    /\ cachedData.faction # Null
    /\ now - cachedData.faction[1].timestamp = 30 * 60 * 1000
    /\ cachedData.alliance # Null
    /\ cachedData.alliance[1].timestamp > 0
    /\ now - cachedData.alliance[1].timestamp >= 30 * 60 * 1000
    /\ YoungerThan("alliance", 60)

(***************************************************************************)
(* A change of the identity of the local view after a failed load.         *)
(***************************************************************************)
\* C39: when the response for the systemId the local view has now arrives
\* and is OK, the view shows the canvas with the data of that system,
\* whatever error an earlier load has recorded.
C39_LoadedIdentityShown ==
    [][\A id \in inFlight :
          LET answer == SystemDetailGET(SystemRecords, id)
          IN  (id = systemId /\ answer.status = 200 /\ LoadSystem(answer.body)) =>
                 /\ systemData' = Some(answer.body)
                 /\ Screen(view, loading', cameraInitialized', error', systemData') = "canvas"]_vars

====
